---- MODULE Spec2Model ----
(***************************************************************************)
(* A model of the symbolic execution engine of isla-lib (executor.rs):     *)
(* the interpreter loop `run`, the task queue of `start_single`, and the   *)
(* work-stealing pool with its quiescence detector of `start_multi`.       *)
(***************************************************************************)
EXTENDS Integers, Sequences, FiniteSets, TLC

\* ------------------------------------------------------------------------
\* Bounds of the model
\* ------------------------------------------------------------------------

\* number of sequential independent symbolic forks of the generated workload
MaxVecSize == 3
NForks == 3

\* number of sequential forks of the workload start_multi is run on
PoolForks == 2

\* largest num_threads start_multi is run with
MaxThreads == 2

\* most Responses the coordinator lets queue up on one poke channel
MaxPokes == 4

\* ------------------------------------------------------------------------
\* Values, types, bindings   (ir.rs: Val, UVal, Bindings)
\* ------------------------------------------------------------------------

RETURN == "RETURN"
SAIL_EXIT == "sail_exit"
INTERNAL_VECTOR_INIT == "internal_vector_init"
INTERNAL_VECTOR_UPDATE == "internal_vector_update"
HAVE_EXCEPTION == "have_exception"
NULL == "NULL"

VUnit == [tag |-> "Unit"]
VBool(b) == [tag |-> "Bool", b |-> b]
VI64(i) == [tag |-> "I64", i |-> i]
VSymbolic(v) == [tag |-> "Symbolic", v |-> v]
VPoison == [tag |-> "Poison"]
VList(xs) == [tag |-> "List", xs |-> xs]
VVector(xs) == [tag |-> "Vector", xs |-> xs]
VBits(len, bits) == [tag |-> "Bits", len |-> len, bits |-> bits]
VStruct(fields) == [tag |-> "Struct", fields |-> fields]

TUnit == [t |-> "Unit"]
TBool == [t |-> "Bool"]
TI64 == [t |-> "I64"]
TI128 == [t |-> "I128"]
TBit == [t |-> "Bit"]
TString == [t |-> "String"]
TBits(sz) == [t |-> "Bits", sz |-> sz]
TEnum(name) == [t |-> "Enum", name |-> name]
TFixedVector(sz, ty) == [t |-> "FixedVector", sz |-> sz, elem |-> ty]
TVector(ty) == [t |-> "Vector", elem |-> ty]
TStruct(name) == [t |-> "Struct", name |-> name]
VCtor(f, val) == [tag |-> "Ctor", f |-> f, val |-> val]

Uninit(ty) == [tag |-> "Uninit", ty |-> ty]
UInit(val) == [tag |-> "Init", val |-> val]

EmptyMap == <<>>
Insert(m, k, u) == [x \in (DOMAIN m) \cup {k} |-> IF x = k THEN u ELSE m[x]]

\* ------------------------------------------------------------------------
\* The SMT solver, by its interface (smt.rs is not part of the sources):
\* a trace of definitions and events in the order they were added, the
\* assertion stack of the backend, and the counter of fresh variables.
\* ------------------------------------------------------------------------

XVar(v) == [x |-> "Var", v |-> v]
XNot(a) == [x |-> "Not", a |-> a]
XBvult(a, b) == [x |-> "Bvult", a |-> a, b |-> b]
XBits8(n) == [x |-> "Bits8", n |-> n]

DefDeclareConst(sym, ty) == [d |-> "DeclareConst", sym |-> sym, ty |-> ty]
DefAssert(exp) == [d |-> "Assert", exp |-> exp]

EvSmt(def) == [ev |-> "Smt", def |-> def]
EvReadReg(reg, path, val) == [ev |-> "ReadReg", reg |-> reg, path |-> path, val |-> val]
EvWriteReg(reg, path, val) == [ev |-> "WriteReg", reg |-> reg, path |-> path, val |-> val]
EvBranch(id, loc) == [ev |-> "Branch", id |-> id, loc |-> loc]

NewSolver == [trace |-> <<>>, asserted |-> <<>>, next |-> 0]

SolverFresh(sv) == [sym |-> sv.next, sv |-> [sv EXCEPT !.next = @ + 1]]

SolverAdd(sv, def) ==
    [sv EXCEPT !.trace = Append(@, EvSmt(def)),
               !.asserted = IF def.d = "Assert" THEN Append(@, def.exp) ELSE @]

SolverAddEvent(sv, event) == [sv EXCEPT !.trace = Append(@, event)]

\* the truth of an assertion under an assignment of the boolean variables
Holds(exp, asg) ==
    IF exp.x = "Var" THEN asg[exp.v] ELSE ~asg[exp.a.v]

VarOf(exp) == IF exp.x = "Var" THEN exp.v ELSE exp.a.v

\* the values of an 8-bit vector
Byte == 0..255

\* the assertions are v, not v on boolean variables and v <u n on 8-bit ones:
\* no assertion relates two variables of different sorts
Satisfiable(exps) ==
    LET bools == {i \in DOMAIN exps : exps[i].x # "Bvult"}
        bytes == {i \in DOMAIN exps : exps[i].x = "Bvult"}
    IN /\ \E asg \in [{VarOf(exps[i]) : i \in bools} -> BOOLEAN] :
             \A i \in bools : Holds(exps[i], asg)
       /\ \A v \in {exps[i].a.v : i \in bytes} :
             \E x \in Byte : \A i \in bytes : exps[i].a.v = v => x < exps[i].b.n

CheckSatWith(sv, exp) == Satisfiable(Append(sv.asserted, exp))

\* a checkpoint keeps the trace and the fresh-variable counter; restoring it
\* builds a new backend and replays the definitions of the trace into it
Checkpoint(sv) == [num |-> sv.next, trace |-> sv.trace]

RECURSIVE Replay(_)
Replay(trace) ==
    IF trace = <<>> THEN <<>>
    ELSE LET e == trace[Len(trace)]
             rest == Replay(SubSeq(trace, 1, Len(trace) - 1))
         IN IF e.ev = "Smt" /\ e.def.d = "Assert" THEN Append(rest, e.def.exp) ELSE rest

FromCheckpoint(point) ==
    [trace |-> point.trace, asserted |-> Replay(point.trace), next |-> point.num]

\* ------------------------------------------------------------------------
\* The IR   (ir.rs: Ty, Exp, Loc, Instr) and the programs that are run
\* ------------------------------------------------------------------------

EId(id) == [e |-> "Id", id |-> id]
EI64(i) == [e |-> "I64", i |-> i]
EBool(b) == [e |-> "Bool", b |-> b]
EUnit == [e |-> "Unit"]
EUndefined(ty) == [e |-> "Undefined", ty |-> ty]
EKind(ctor, exp) == [e |-> "Kind", ctor |-> ctor, exp |-> exp]
EField(exp, field) == [e |-> "Field", exp |-> exp, field |-> field]
ECall(opr, args) == [e |-> "Call", opr |-> opr, args |-> args]

LId(id) == [l |-> "Id", id |-> id]
LField(loc, field) == [l |-> "Field", loc |-> loc, field |-> field]

\* Accessor::Field
AccField(field) == [acc |-> "Field", field |-> field]

Decl(v, ty) == [op |-> "Decl", v |-> v, ty |-> ty]
InitI(v, ty, exp) == [op |-> "Init", v |-> v, ty |-> ty, exp |-> exp]
Jump(exp, target, loc) == [op |-> "Jump", exp |-> exp, target |-> target, loc |-> loc]
Goto(target) == [op |-> "Goto", target |-> target]
Copy(loc, exp) == [op |-> "Copy", loc |-> loc, exp |-> exp]
Call(loc, f, args) == [op |-> "Call", loc |-> loc, f |-> f, args |-> args]
End == [op |-> "End"]
Arbitrary == [op |-> "Arbitrary"]

Fn(params, instrs) == [params |-> params, instrs |-> instrs]

XName(i) == "x" \o ToString(i)

\* the numbers of members of the enums of the shared state
EnumSizes == {1, 2, 255, 256, 257}
EnumName(n) == "E" \o ToString(n)

\* n sequential independent symbolic forks: instruction n+i-1 jumps on x_i
\* to the next instruction, so both sides of every fork meet every later one
ForkInstrs(n) ==
    [i \in 1..n |-> InitI(XName(i), TBool, EUndefined(TBool))]
    \o [i \in 1..n |-> Jump(EId(XName(i)), n + i, "fork" \o ToString(i))]
    \o <<Copy(LId(RETURN), EBool(TRUE)), End>>

NoRegs == EmptyMap

\* a value of the struct S, and one of the struct T that holds an S
SVal(b) == VStruct([x \in {"f", "g"} |-> IF x = "f" THEN VBool(b) ELSE VUnit])
TVal(b) == VStruct([x \in {"h", "k"} |-> IF x = "h" THEN SVal(b) ELSE VUnit])

\* registers R and R2 of the programs that read and write fields
FieldRegs(r) == [x \in {"R", "R2"} |-> IF x = "R" THEN r ELSE UInit(VBool(TRUE))]

\* the programs that read an enum of n members and a vector of size n
EnumProgram(n) == "enum" \o ToString(n)
EnumJumpProgram(n) == "enumjump" \o ToString(n)
VecProgram(n) == "vec" \o ToString(n)
EnumPrograms == {EnumProgram(n) : n \in EnumSizes}
EnumJumpPrograms == {EnumJumpProgram(n) : n \in EnumSizes}
VecPrograms == {VecProgram(n) : n \in 1..MaxVecSize}

Program(name) ==
    CASE name = "trivial" ->
           [regs |-> NoRegs, lets |-> EmptyMap, args |-> <<>>,
            functions |-> [f \in {"main"} |-> Fn(<<>>,
              <<Decl("r", TBool), Copy(LId("r"), EBool(TRUE)),
                Copy(LId(RETURN), EId("r")), End>>)]]
      [] name = "falls" ->
           \* the instruction list ends without an End, as that of a let binding does
           [regs |-> NoRegs, lets |-> EmptyMap, args |-> <<>>,
            functions |-> [f \in {"main"} |-> Fn(<<>>,
              <<Decl("r", TBool), Copy(LId("r"), EBool(TRUE))>>)]]
      [] name = "fork1" ->
           [regs |-> NoRegs, lets |-> EmptyMap, args |-> <<>>,
            functions |-> [f \in {"main"} |-> Fn(<<>>,
              <<InitI("x", TBool, EUndefined(TBool)), Jump(EId("x"), 4, "src"),
                Copy(LId(RETURN), EBool(FALSE)), End,
                Copy(LId(RETURN), EBool(TRUE)), End>>)]]
      [] name = "pruned" ->
           [regs |-> NoRegs, lets |-> EmptyMap, args |-> <<>>,
            functions |-> [f \in {"main"} |-> Fn(<<>>,
              <<InitI("x", TBool, EUndefined(TBool)), Copy(LId("x"), EBool(FALSE)),
                Jump(EId("x"), 5, "src"),
                Copy(LId(RETURN), EBool(FALSE)), End,
                Copy(LId(RETURN), EBool(TRUE)), End>>)]]
      [] name = "onesided" ->
           \* the second and third Jump test a condition the path has decided
           [regs |-> NoRegs, lets |-> EmptyMap, args |-> <<<<"x", TBool>>>>,
            functions |-> [f \in {"main"} |-> Fn(<<"x">>,
              <<Jump(EId("x"), 3, "a"), Jump(EId("x"), 5, "b"), Goto(4),
                Jump(EId("x"), 4, "c"), Arbitrary,
                Copy(LId(RETURN), EId("x")), End>>)]]
      [] name = "call" ->
           [regs |-> NoRegs, lets |-> EmptyMap, args |-> <<>>,
            functions |-> [f \in {"main", "g"} |->
              IF f = "main"
              THEN Fn(<<>>, <<Decl("r", TI64), Call(LId("r"), "g", <<>>),
                              Copy(LId(RETURN), EId("r")), End>>)
              ELSE Fn(<<>>, <<Copy(LId(RETURN), EI64(7)), End>>)]]
      [] name = "nested" ->
           \* main calls f(a, u), f calls g(p) into a register, g forks
           [regs |-> [r \in {"R1"} |-> Uninit(TI64)], lets |-> EmptyMap, args |-> <<>>,
            functions |-> [f \in {"main", "f", "g"} |->
              CASE f = "main" ->
                     Fn(<<>>, <<InitI("a", TI64, EI64(1)), Decl("u", TBool),
                                Decl("r", TI64),
                                InitI("c", TBool, EUndefined(TBool)),
                                Jump(EId("c"), 5, "m"),
                                Call(LId("r"), "f", <<EId("a"), EId("u")>>),
                                Copy(LId(RETURN), EId("r")), End>>)
                [] f = "f" ->
                     Fn(<<"p", "q">>, <<Decl("t", TI64), Call(LId("R1"), "g", <<EId("q")>>),
                                        Call(LId("t"), "g", <<EId("q")>>),
                                        Copy(LId(RETURN), EId("p")), End>>)
                [] OTHER ->
                     Fn(<<"y">>, <<Jump(EId("y"), 3, "g"), Copy(LId(RETURN), EI64(2)), End,
                                   Copy(LId(RETURN), EI64(3)), End>>)]]
      [] name = "regs" ->
           [regs |-> [r \in {"R1"} |-> Uninit(TI64)], lets |-> EmptyMap, args |-> <<>>,
            functions |-> [f \in {"main"} |-> Fn(<<>>,
              <<Copy(LId("R1"), EI64(5)), InitI("r", TI64, EId("R1")),
                Copy(LId(RETURN), EId("r")), End>>)]]
      [] name = "uninit" ->
           \* every kind of slot is read twice while it is still Uninit
           [regs |-> [r \in {"R2", "R3"} |-> IF r = "R2" THEN Uninit(TBool) ELSE Uninit(TUnit)],
            lets |-> [l \in {"L1"} |-> Uninit(TI64)], args |-> <<>>,
            functions |-> [f \in {"main"} |-> Fn(<<>>,
              <<Decl("x", TBool), InitI("a", TBool, EId("x")), InitI("b", TBool, EId("x")),
                InitI("c", TBool, EId("R2")), Copy(LId("R2"), EId("R2")),
                InitI("d", TI64, EId("L1")), InitI("e", TI64, EId("L1")),
                Decl("s", TString), Copy(LId("x"), EId("s")), Copy(LId("R3"), EId("R3")),
                Decl(RETURN, TBool), Jump(EId("a"), 12, "u"), End>>)]]
      [] name \in EnumPrograms ->
           \* an enum is read twice, the path returns true
           [regs |-> NoRegs, lets |-> EmptyMap, args |-> <<>>,
            functions |-> [f \in {"main"} |-> Fn(<<>>,
              LET ty == TEnum(EnumName(CHOOSE n \in EnumSizes : EnumProgram(n) = name))
              IN <<Decl("e", ty), InitI("k", ty, EId("e")), InitI("l", ty, EId("e")),
                   Copy(LId(RETURN), EBool(TRUE)), End>>)]]
      [] name \in EnumJumpPrograms ->
           \* an enum is read, then a symbolic condition is tested
           [regs |-> NoRegs, lets |-> EmptyMap, args |-> <<>>,
            functions |-> [f \in {"main"} |-> Fn(<<>>,
              LET ty == TEnum(EnumName(CHOOSE n \in EnumSizes : EnumJumpProgram(n) = name))
              IN <<Decl("e", ty), InitI("k", ty, EId("e")),
                   InitI("x", TBool, EUndefined(TBool)), Jump(EId("x"), 4, "en"),
                   Copy(LId(RETURN), EId("x")), End>>)]]
      [] name \in VecPrograms ->
           [regs |-> NoRegs, lets |-> EmptyMap, args |-> <<>>,
            functions |-> [f \in {"main"} |-> Fn(<<>>,
              LET ty == TFixedVector(CHOOSE n \in 1..MaxVecSize : VecProgram(n) = name, TBool)
              IN <<Decl("v", ty), InitI("w", ty, EId("v")),
                   Copy(LId(RETURN), EBool(TRUE)), End>>)]]
      [] name = "vecvec" ->
           \* a vector of vectors
           [regs |-> NoRegs, lets |-> EmptyMap, args |-> <<>>,
            functions |-> [f \in {"main"} |-> Fn(<<>>,
              <<Decl("v", TFixedVector(3, TFixedVector(2, TI64))),
                InitI("w", TFixedVector(3, TFixedVector(2, TI64)), EId("v")),
                Copy(LId(RETURN), EBool(TRUE)), End>>)]]
      [] name = "taken" ->
           \* a Jump on the concrete value true
           [regs |-> NoRegs, lets |-> EmptyMap, args |-> <<>>,
            functions |-> [f \in {"main"} |-> Fn(<<>>,
              <<InitI("t", TBool, EBool(TRUE)), Jump(EId("t"), 3, "t"), Arbitrary,
                Copy(LId(RETURN), EId("t")), End>>)]]
      [] name = "evalerr" ->
           \* expressions that fail: the path that took the Jump ends with
           \* Unimplemented at pc 9, its sibling with a Type error at pc 3
           [regs |-> NoRegs, lets |-> EmptyMap, args |-> <<>>,
            functions |-> [f \in {"main"} |-> Fn(<<>>,
              <<Decl("o", TUnit),
                InitI("x", TBool, EUndefined(TBool)), Jump(EId("x"), 5, "ev"),
                InitI("k", TBool, EKind("Some", EI64(1))), End,
                Call(LId("o"), "Some", <<EI64(1)>>),
                InitI("k", TBool, EKind("Some", EId("o"))),
                Jump(EKind("None", EId("o")), 9, "k"), Arbitrary,
                Copy(LId(RETURN), ECall("Other", <<EId("k")>>)), End>>)]]
      [] name = "valid" ->
           \* a symbolic result that holds on the path that returns it
           [regs |-> NoRegs, lets |-> EmptyMap, args |-> <<>>,
            functions |-> [f \in {"main"} |-> Fn(<<>>,
              <<InitI("x", TBool, EUndefined(TBool)), Copy(LId(RETURN), EId("x")),
                Jump(EId("x"), 4, "v"), Copy(LId(RETURN), EBool(TRUE)), End>>)]]
      [] name = "exit" ->
           \* the path that took the Jump calls SAIL_EXIT, its sibling returns
           [regs |-> NoRegs, lets |-> EmptyMap, args |-> <<>>,
            functions |-> [f \in {"main"} |-> Fn(<<>>,
              <<InitI("x", TBool, EUndefined(TBool)), Jump(EId("x"), 3, "ex"), Goto(4),
                Call(LId("r"), SAIL_EXIT, <<>>), Copy(LId(RETURN), EId("x")), End>>)]]
      [] name = "typeerr" ->
           \* a Jump on a value that is no boolean
           [regs |-> NoRegs, lets |-> EmptyMap, args |-> <<>>,
            functions |-> [f \in {"main"} |-> Fn(<<>>,
              <<InitI("n", TI64, EI64(1)), Jump(EId("n"), 0, "bad"),
                Copy(LId(RETURN), EBool(TRUE)), End>>)]]
      [] name = "intrinsics" ->
           \* the calls that are no functions; one side of the fork ends with
           \* Exit, the other with the Type error of a second vector init
           [regs |-> NoRegs, lets |-> EmptyMap, args |-> <<>>,
            functions |-> [f \in {"main"} |-> Fn(<<>>,
              <<Decl("v", TVector(TBool)),
                Call(LId("v"), INTERNAL_VECTOR_INIT, <<EI64(2)>>),
                Call(LId("v"), INTERNAL_VECTOR_UPDATE, <<EI64(0)>>),
                Decl("o", TUnit), Call(LId("o"), "Some", <<EI64(1)>>),
                InitI("x", TBool, EUndefined(TBool)), Jump(EId("x"), 8, "i"),
                Call(LId("v"), INTERNAL_VECTOR_INIT, <<EI64(2)>>),
                Call(LId("o"), SAIL_EXIT, <<>>)>>)]]
      [] name = "fields" ->
           \* a fork on a field of a register that is made symbolic when read;
           \* one side writes the field, both call get and fall off the end
           [regs |-> FieldRegs(Uninit(TStruct("S"))), lets |-> EmptyMap, args |-> <<>>,
            functions |-> [f \in {"main", "get"} |->
              IF f = "main"
              THEN Fn(<<>>,
                <<InitI("c", TBool, EField(EId("R"), "f")), Jump(EId("c"), 4, "l"),
                  Copy(LField(LId("R"), "f"), EBool(FALSE)), Goto(5), Arbitrary,
                  Call(LId("r"), "get", <<EField(EId("R"), "f"), EId("R2")>>)>>)
              ELSE Fn(<<"a", "b">>, <<Copy(LId(RETURN), EId("a")), End>>)]]
      [] name = "regfield" ->
           \* R.f := false on a register that holds a struct
           [regs |-> FieldRegs(UInit(SVal(TRUE))), lets |-> EmptyMap, args |-> <<>>,
            functions |-> [f \in {"main"} |-> Fn(<<>>,
              <<Copy(LField(LId("R"), "f"), EBool(FALSE)),
                Copy(LId(RETURN), EField(EId("R"), "f")), End>>)]]
      [] name = "locfield" ->
           \* X.f := false on a local that holds a struct
           [regs |-> FieldRegs(UInit(SVal(TRUE))), lets |-> EmptyMap, args |-> <<>>,
            functions |-> [f \in {"main"} |-> Fn(<<>>,
              <<InitI("X", TStruct("S"), EId("R")),
                Copy(LField(LId("X"), "f"), EBool(FALSE)),
                Copy(LId(RETURN), EField(EId("X"), "f")), End>>)]]
      [] name = "regfieldg" ->
           \* R.g := () on a register that holds a struct, then R.f
           [regs |-> FieldRegs(UInit(SVal(FALSE))), lets |-> EmptyMap, args |-> <<>>,
            functions |-> [f \in {"main"} |-> Fn(<<>>,
              <<Copy(LField(LId("R"), "g"), EUnit), Copy(LField(LId("R"), "f"), EId("R2")),
                Copy(LId(RETURN), EField(EId("R"), "g")), End>>)]]
      [] name = "uninitreg" ->
           \* R.f := false on a register that is not made symbolic yet
           [regs |-> FieldRegs(Uninit(TStruct("S"))), lets |-> EmptyMap, args |-> <<>>,
            functions |-> [f \in {"main"} |-> Fn(<<>>,
              <<Copy(LField(LId("R"), "f"), EBool(FALSE)),
                Copy(LId(RETURN), EField(EId("R"), "f")), End>>)]]
      [] name = "shadowfield" ->
           \* R.f := false where a local R shadows the register R
           [regs |-> FieldRegs(UInit(SVal(TRUE))), lets |-> EmptyMap, args |-> <<>>,
            functions |-> [f \in {"main"} |-> Fn(<<>>,
              <<Decl("R", TStruct("S")), Copy(LField(LId("R"), "f"), EBool(FALSE)),
                Copy(LId(RETURN), EField(EId("R"), "f")), End>>)]]
      [] name = "nofield" ->
           \* a field the struct does not have, and a field of a boolean
           [regs |-> FieldRegs(UInit(SVal(TRUE))), lets |-> EmptyMap, args |-> <<>>,
            functions |-> [f \in {"main"} |-> Fn(<<>>,
              <<InitI("c", TBool, EUndefined(TBool)), Jump(EId("c"), 3, "l"),
                Copy(LField(LId("R"), "h"), EBool(FALSE)),
                Copy(LField(LId("R2"), "f"), EBool(FALSE)),
                Copy(LId(RETURN), EUnit), End>>)]]
      [] name = "isolated" ->
           \* both paths of a fork write the local x and a register and make
           \* the let L symbolic
           [regs |-> FieldRegs(UInit(SVal(TRUE))), lets |-> [x \in {"L"} |-> Uninit(TBool)],
            args |-> <<>>,
            functions |-> [f \in {"main"} |-> Fn(<<>>,
              <<InitI("c", TBool, EUndefined(TBool)), InitI("x", TI64, EI64(0)),
                Jump(EId("c"), 7, "iso"),
                Copy(LId("x"), EI64(1)), Copy(LField(LId("R"), "f"), EBool(FALSE)),
                Copy(LId(RETURN), EId("L")), End,
                Copy(LId("x"), EI64(2)), Copy(LId("R2"), EBool(FALSE)),
                Copy(LId(RETURN), EId("L")), End>>)]]
      [] name = "nestedassign" ->
           \* Q.h.f := false
           [regs |-> [x \in {"Q"} |-> UInit(TVal(TRUE))], lets |-> EmptyMap, args |-> <<>>,
            functions |-> [f \in {"main"} |-> Fn(<<>>,
              <<Copy(LField(LField(LId("Q"), "h"), "f"), EBool(FALSE)),
                Copy(LId(RETURN), EField(EField(EId("Q"), "h"), "f")), End>>)]]
      [] name = "nestedread" ->
           \* Y.h.f of a local and Q.h.f of a register
           [regs |-> [x \in {"Q"} |-> UInit(TVal(TRUE))], lets |-> EmptyMap, args |-> <<>>,
            functions |-> [f \in {"main"} |-> Fn(<<>>,
              <<InitI("Y", TStruct("T"), EId("Q")),
                InitI("w", TBool, EField(EField(EId("Y"), "h"), "f")),
                Copy(LId(RETURN), EField(EField(EId("Q"), "h"), "f")), End>>)]]
      [] name = "lookup" ->
           \* N is a register and a let, then a local too; L is a let; A and B
           \* are members of an enum
           [regs |-> [x \in {"N"} |-> UInit(VI64(1))],
            lets |-> [x \in {"N", "L"} |-> IF x = "N" THEN UInit(VI64(2)) ELSE UInit(VI64(3))],
            args |-> <<>>,
            functions |-> [f \in {"main"} |-> Fn(<<>>,
              <<Decl("a", TI64), Copy(LId("a"), EId("N")),
                InitI("N", TI64, EI64(7)), Copy(LId("a"), EId("N")),
                Copy(LId("a"), EId("L")), Copy(LId("a"), EId("A")),
                Copy(LId(RETURN), EId("B")), End>>)]]
      [] name = "unbound" ->
           \* a name that is bound nowhere
           [regs |-> NoRegs, lets |-> EmptyMap, args |-> <<>>,
            functions |-> [f \in {"main"} |-> Fn(<<>>,
              <<Copy(LId(RETURN), EId("nowhere")), End>>)]]
      [] name = "assignid" ->
           \* assignments to a local, to a let, to a name bound nowhere and to
           \* a register
           [regs |-> [x \in {"N"} |-> UInit(VI64(1))],
            lets |-> [x \in {"L"} |-> UInit(VI64(3))], args |-> <<>>,
            functions |-> [f \in {"main"} |-> Fn(<<>>,
              <<InitI("x", TI64, EI64(0)), Copy(LId("x"), EI64(1)),
                Copy(LId("L"), EI64(4)), Copy(LId("Z"), EI64(5)), Copy(LId("N"), EI64(6)),
                Copy(LId(RETURN), EId("L")), End>>)]]
      [] name = "letfield" ->
           \* LS.g := () on a let that is not made symbolic yet
           [regs |-> NoRegs, lets |-> [x \in {"LS"} |-> Uninit(TStruct("S"))], args |-> <<>>,
            functions |-> [f \in {"main"} |-> Fn(<<>>,
              <<Copy(LField(LId("LS"), "g"), EUnit), Copy(LId(RETURN), EUnit), End>>)]]
      [] name = "callfx" ->
           \* g writes the register R, makes the let L symbolic, declares a
           \* local a as its caller has one, and forks; u and w are made
           \* symbolic when the arguments are read
           [regs |-> [x \in {"R"} |-> UInit(VI64(0))],
            lets |-> [x \in {"L"} |-> Uninit(TBool)], args |-> <<>>,
            functions |-> [f \in {"main", "g"} |->
              IF f = "main"
              THEN Fn(<<>>, <<InitI("a", TI64, EI64(1)), Decl("u", TBool), Decl("w", TBool),
                              Decl("r", TBool),
                              Call(LId("r"), "g", <<EId("u"), EId("w"), EId("a")>>),
                              Copy(LId(RETURN), EId("r")), End>>)
              ELSE Fn(<<"p", "q", "n">>,
                      <<Copy(LId("R"), EId("n")), InitI("a", TBool, EId("L")),
                        Jump(EId("p"), 4, "gf"), Arbitrary,
                        Copy(LId(RETURN), EId("q")), End>>)]]
      [] name = "callfall" ->
           \* the callee leaves its instruction list by a Jump and by a Goto
           [regs |-> NoRegs, lets |-> EmptyMap, args |-> <<>>,
            functions |-> [f \in {"main", "g"} |->
              IF f = "main"
              THEN Fn(<<>>, <<InitI("c", TBool, EUndefined(TBool)), Decl("r", TUnit),
                              Call(LId("r"), "g", <<EId("c")>>),
                              Copy(LId(RETURN), EBool(TRUE)), End>>)
              ELSE Fn(<<"p">>, <<Jump(EId("p"), 7, "far"), Goto(9)>>)]]
      [] name = "callnoret" ->
           \* the caller has assigned RETURN, the callee has not
           [regs |-> NoRegs, lets |-> EmptyMap, args |-> <<>>,
            functions |-> [f \in {"main", "g"} |->
              IF f = "main"
              THEN Fn(<<>>, <<Copy(LId(RETURN), EBool(TRUE)), Decl("r", TBool),
                              Call(LId("r"), "g", <<>>), End>>)
              ELSE Fn(<<>>, <<End>>)]]
      [] name = "noret" ->
           \* End without an assignment to RETURN
           [regs |-> NoRegs, lets |-> EmptyMap, args |-> <<>>,
            functions |-> [f \in {"main"} |-> Fn(<<>>, <<Decl("r", TBool), End>>)]]
      [] name = "symret" ->
           \* main ends with RETURN declared and not assigned
           [regs |-> NoRegs, lets |-> EmptyMap, args |-> <<>>,
            functions |-> [f \in {"main"} |-> Fn(<<>>, <<Decl(RETURN, TBool), End>>)]]
      [] name = "callsym" ->
           \* the callee ends with RETURN declared and not assigned
           [regs |-> NoRegs, lets |-> EmptyMap, args |-> <<>>,
            functions |-> [f \in {"main", "g"} |->
              IF f = "main"
              THEN Fn(<<>>, <<Decl("r", TBool), Call(LId("r"), "g", <<>>),
                              Copy(LId(RETURN), EId("r")), End>>)
              ELSE Fn(<<>>, <<Decl(RETURN, TBool), End>>)]]
      [] name = "mforks" ->
           [regs |-> NoRegs, lets |-> EmptyMap, args |-> <<>>,
            functions |-> [f \in {"main"} |-> Fn(<<>>, ForkInstrs(PoolForks))]]
      [] OTHER ->
           [regs |-> NoRegs, lets |-> EmptyMap, args |-> <<>>,
            functions |-> [f \in {"main"} |-> Fn(<<>>, ForkInstrs(NForks))]]

Programs ==
    {"trivial", "falls", "fork1", "pruned", "onesided", "call", "nested", "regs", "uninit",
     "forks", "vecvec", "taken", "evalerr", "valid", "exit", "typeerr", "intrinsics"}
    \cup EnumPrograms \cup EnumJumpPrograms \cup VecPrograms

\* the programs that read and write fields, registers, lets and enum members
AccessPrograms ==
    {"fields", "regfield", "locfield", "nestedassign", "nestedread", "lookup", "unbound",
     "assignid", "letfield", "regfieldg", "uninitreg", "shadowfield", "nofield", "isolated"}

\* the programs that call functions
CallPrograms ==
    {"call", "nested", "callfx", "callfall", "callnoret", "noret", "callsym", "symret"}

\* the workloads start_multi is run on
Workloads == {"mforks"}

Functions(p) == Program(p).functions

\* shared_state.enums, by the number of members
Enums == [name \in {EnumName(n) : n \in EnumSizes} |->
            CHOOSE n \in EnumSizes : EnumName(n) = name]
EnumSize(name) == Enums[name]

\* shared_state.structs: the types of the fields.  The fields of a struct are
\* made symbolic in the order of a hash map; no struct here has two fields
\* that take a fresh variable, so that every order gives the same value
Structs ==
    [name \in {"S", "T"} |->
       IF name = "S" THEN [f \in {"f", "g"} |-> IF f = "f" THEN TBool ELSE TUnit]
       ELSE [f \in {"h", "k"} |-> IF f = "h" THEN TStruct("S") ELSE TUnit]]

\* shared_state.enum_members: the position of a member in its enum
EnumMembers == [m \in {"A", "B"} |-> IF m = "A" THEN 0 ELSE 1]

\* shared_state.union_ctors
UnionCtors == {"Some"}

\* the operations eval_exp knows
PrimOps ==
    {"Lt", "Gt", "Eq", "Neq", "Add", "Bvor", "Bvxor", "Bvand", "Not", "Slice", "SetSlice",
     "Unsigned", "Head", "Tail"}

\* ------------------------------------------------------------------------
\* symbolic, get_and_initialize, eval_exp, assign
\* ------------------------------------------------------------------------

\* the SMT sort of a type, "" for a type with no fresh variable
SmtTy(ty) ==
    CASE ty.t = "I64" -> "BitVec64"
      [] ty.t = "I128" -> "BitVec128"
      [] ty.t = "Bits" -> "BitVec" \o ToString(ty.sz)
      [] ty.t = "Bool" -> "Bool"
      [] ty.t = "Bit" -> "BitVec1"
      [] OTHER -> ""

\* primop::smt_u8(enum_size as u8): the cast keeps the low 8 bits
smt_u8(n) == XBits8(n % 256)

\* Ty::Enum: a byte below the number of members of the enum
SymbolicEnum(f, enum_size) ==
    [val |-> VSymbolic(f.sym),
     sv |-> SolverAdd(SolverAdd(f.sv, DefDeclareConst(f.sym, "BitVec8")),
                      DefAssert(XBvult(XVar(f.sym), smt_u8(enum_size))))]

\* the fresh variable of a type with an SMT sort
SymbolicVar(f, smt_ty) ==
    [val |-> VSymbolic(f.sym), sv |-> SolverAdd(f.sv, DefDeclareConst(f.sym, smt_ty))]

\* (0..(sz - 1)): the number of elements symbolic makes for FixedVector(sz, _)
VectorLenFull(sz) == sz
VectorLen(sz) == sz - 1

SymbolicPush(init, last) == [val |-> VVector(Append(init.val.xs, last.val)), sv |-> last.sv]

RECURSIVE Symbolic(_, _)
RECURSIVE SymbolicVector(_, _, _)
RECURSIVE SymbolicStruct(_, _, _)
\* field_types.iter().map(|(f, ty)| symbolic(ty, shared_state, solver)).collect()
SymbolicField(init, f, last) ==
    [val |-> VStruct(Insert(init.val.fields, f, last.val)), sv |-> last.sv]

SymbolicStruct(fields, field_types, sv) ==
    IF fields = <<>> THEN [val |-> VStruct(EmptyMap), sv |-> sv]
    ELSE CHOOSE r \in {SymbolicField(init, fields[Len(fields)],
                                     Symbolic(field_types[fields[Len(fields)]], init.sv)) :
                       init \in {SymbolicStruct(SubSeq(fields, 1, Len(fields) - 1),
                                                field_types, sv)}} : TRUE

\* the keys of a map, as the sequence its iterator gives
RECURSIVE Keys(_)
Keys(S) == IF S = {} THEN <<>> ELSE CHOOSE q \in {<<k>> \o Keys(S \ {k}) : k \in {CHOOSE x \in S : TRUE}} : TRUE

\* (0..n).map(|_| symbolic(ty, shared_state, solver)).collect()
SymbolicVector(n, ty, sv) ==
    IF n = 0 THEN [val |-> VVector(<<>>), sv |-> sv]
    ELSE CHOOSE r \in {SymbolicPush(init, Symbolic(ty, init.sv)) :
                       init \in {SymbolicVector(n - 1, ty, sv)}} : TRUE

Symbolic(ty, sv) ==
    CASE ty.t = "Unit" -> [val |-> VUnit, sv |-> sv]
      [] ty.t = "Bits" /\ ty.sz = 0 -> [val |-> VBits(0, 0), sv |-> sv]
      [] ty.t = "Enum" -> SymbolicEnum(SolverFresh(sv), EnumSize(ty.name))
      [] ty.t = "FixedVector" -> SymbolicVector(VectorLen(ty.sz), ty.elem, sv)
      [] ty.t = "Struct" ->
           SymbolicStruct(Keys(DOMAIN Structs[ty.name]), Structs[ty.name], sv)
      [] ty.t \notin {"Unit", "Bits", "Enum", "FixedVector", "Struct"} /\ SmtTy(ty) = "" ->
           [val |-> VPoison, sv |-> sv]
      [] OTHER -> SymbolicVar(SolverFresh(sv), SmtTy(ty))

GetAndInitializeNoStore(v, vars, sv) ==
    IF v \notin DOMAIN vars THEN [found |-> FALSE, vars |-> vars, sv |-> sv]
    ELSE IF vars[v].tag = "Uninit"
    THEN LET s == Symbolic(vars[v].ty, sv)
         IN [found |-> TRUE, val |-> s.val, vars |-> vars, sv |-> s.sv]
    ELSE [found |-> TRUE, val |-> vars[v].val, vars |-> vars, sv |-> sv]

GetAndInitialize(v, vars, sv) ==
    IF v \notin DOMAIN vars THEN [found |-> FALSE, vars |-> vars, sv |-> sv]
    ELSE IF vars[v].tag = "Uninit"
    THEN LET s == Symbolic(vars[v].ty, sv)
         IN [found |-> TRUE, val |-> s.val, vars |-> Insert(vars, v, UInit(s.val)), sv |-> s.sv]
    ELSE [found |-> TRUE, val |-> vars[v].val, vars |-> vars, sv |-> sv]

\* the result of an evaluation: err is "" when it succeeded
Evald(val, ls, sv, err) == [val |-> val, ls |-> ls, sv |-> sv, err |-> err]

\* the three outcomes of get_id_and_initialize, g being what get_and_initialize gave
FoundVar(ls, g) == Evald(g.val, [ls EXCEPT !.vars = g.vars], g.sv, "")
FoundReg(id, ls, accessor, g) ==
    Evald(g.val, [ls EXCEPT !.regs = g.vars],
          SolverAddEvent(g.sv, EvReadReg(id, accessor, g.val)), "")
FoundLet(ls, g) == Evald(g.val, [ls EXCEPT !.lets = g.vars], g.sv, "")

GetIdRegsFirst(id, ls, sv, accessor) ==
    IF id \in DOMAIN ls.regs
    THEN FoundReg(id, ls, accessor, GetAndInitialize(id, ls.regs, sv))
    ELSE IF id \in DOMAIN ls.vars THEN FoundVar(ls, GetAndInitialize(id, ls.vars, sv))
    ELSE IF id \in DOMAIN ls.lets THEN FoundLet(ls, GetAndInitialize(id, ls.lets, sv))
    ELSE IF id \in DOMAIN EnumMembers THEN Evald(VBits(8, EnumMembers[id]), ls, sv, "")
    ELSE Evald(VPoison, ls, sv, "panic")

GetIdAndInitialize(id, ls, sv, accessor) ==
    IF id \in DOMAIN ls.vars THEN FoundVar(ls, GetAndInitialize(id, ls.vars, sv))
    ELSE IF id \in DOMAIN ls.regs
    THEN FoundReg(id, ls, accessor, GetAndInitialize(id, ls.regs, sv))
    ELSE IF id \in DOMAIN ls.lets THEN FoundLet(ls, GetAndInitialize(id, ls.lets, sv))
    ELSE IF id \in DOMAIN EnumMembers THEN Evald(VBits(8, EnumMembers[id]), ls, sv, "")
    ELSE Evald(VPoison, ls, sv, "panic")

GetLocAndInitialize(loc, ls, sv, accessor) ==
    IF loc.l = "Id" THEN GetIdAndInitialize(loc.id, ls, sv, accessor)
    ELSE Evald(VPoison, ls, sv, "panic")

\* Field(exp, field), v being the evaluated exp
FieldOf(field, v) ==
    IF v.err # "" THEN v
    ELSE IF v.val.tag # "Struct" THEN Evald(VPoison, v.ls, v.sv, "panic")
    ELSE IF field \notin DOMAIN v.val.fields THEN Evald(VPoison, v.ls, v.sv, "panic")
    ELSE Evald(v.val.fields[field], v.ls, v.sv, "")

\* accessor.push(Accessor::Field(*field))
PushFront(accessor, field) == <<AccField(field)>> \o accessor
Push(accessor, field) == Append(accessor, AccField(field))

\* Kind(ctor_a, exp), v being the evaluated exp
KindOf(ctor_a, v) ==
    IF v.err # "" THEN v
    ELSE IF v.val.tag = "Ctor" THEN Evald(VBool(ctor_a # v.val.f), v.ls, v.sv, "")
    ELSE Evald(VPoison, v.ls, v.sv, "Type")

\* Call(op, args), a being the evaluated args; the primitive operations
\* themselves are not modelled
\* primop::not_bool on a boolean
not_bool(v) == VBool(~v.b)

OpOf(opr, a) ==
    IF a.err # "" THEN Evald(VPoison, a.ls, a.sv, a.err)
    ELSE IF opr \notin PrimOps THEN Evald(VPoison, a.ls, a.sv, "Unimplemented")
    ELSE IF opr = "Not" /\ a.vals[1].tag = "Bool" THEN Evald(not_bool(a.vals[1]), a.ls, a.sv, "")
    ELSE Evald(VPoison, a.ls, a.sv, "panic")

RECURSIVE EvalExpWithAccessor(_, _, _, _)
RECURSIVE EvalArgs(_, _, _)
EvalExpWithAccessor(exp, ls, sv, accessor) ==
    CASE exp.e = "Id" -> GetIdAndInitialize(exp.id, ls, sv, accessor)
      [] exp.e = "Kind" -> KindOf(exp.ctor, EvalExpWithAccessor(exp.exp, ls, sv, <<>>))
      [] exp.e = "Call" -> OpOf(exp.opr, EvalArgs(exp.args, ls, sv))
      [] exp.e = "Field" ->
           FieldOf(exp.field, EvalExpWithAccessor(exp.exp, ls, sv, Push(accessor, exp.field)))
      [] exp.e = "I64" -> Evald(VI64(exp.i), ls, sv, "")
      [] exp.e = "Unit" -> Evald(VUnit, ls, sv, "")
      [] exp.e = "Bool" -> Evald(VBool(exp.b), ls, sv, "")
      [] exp.e = "Undefined" ->
           LET s == Symbolic(exp.ty, sv) IN Evald(s.val, ls, s.sv, "")
      [] OTHER -> Evald(VPoison, ls, sv, "panic")

EvalExp(exp, ls, sv) == EvalExpWithAccessor(exp, ls, sv, <<>>)

\* the arguments of a call, left to right; the first error ends the evaluation
ArgsThen(init, last) ==
    [vals |-> Append(init.vals, last.val), ls |-> last.ls, sv |-> last.sv, err |-> last.err]

EvalArgs(args, ls, sv) ==
    IF args = <<>> THEN [vals |-> <<>>, ls |-> ls, sv |-> sv, err |-> ""]
    ELSE CHOOSE r \in {IF init.err # "" THEN init
                       ELSE ArgsThen(init, EvalExp(args[Len(args)], init.ls, init.sv)) :
                       init \in {EvalArgs(SubSeq(args, 1, Len(args) - 1), ls, sv)}} : TRUE

Assigned(ls, sv, err) == [ls |-> ls, sv |-> sv, err |-> err]

AssignAlwaysLogged(loc, v, ls, sv, accessor) ==
    IF loc.l = "Id"
    THEN IF loc.id \in DOMAIN ls.vars \/ loc.id = RETURN
         THEN Assigned([ls EXCEPT !.vars = Insert(@, loc.id, UInit(v))],
                       SolverAddEvent(sv, EvWriteReg(loc.id, accessor, v)), "")
         ELSE Assigned([ls EXCEPT !.regs = Insert(@, loc.id, UInit(v))],
                       SolverAddEvent(sv, EvWriteReg(loc.id, accessor, v)), "")
    ELSE Assigned(ls, sv, "panic")

RECURSIVE AssignWithAccessor(_, _, _, _, _)
AssignFieldAlone(loc, v, g) ==
    IF g.err # "" THEN Assigned(g.ls, g.sv, g.err)
    ELSE AssignWithAccessor(loc.loc, VStruct([x \in {loc.field} |-> v]),
                            g.ls, g.sv, <<AccField(loc.field)>>)

\* Loc::Field(loc, field), g being what get_loc_and_initialize gave for loc
AssignField(loc, v, g) ==
    IF g.err # "" THEN Assigned(g.ls, g.sv, g.err)
    ELSE IF g.val.tag # "Struct" THEN Assigned(g.ls, g.sv, "panic")
    ELSE IF loc.field \notin DOMAIN g.val.fields THEN Assigned(g.ls, g.sv, "panic")
    ELSE AssignWithAccessor(loc.loc, VStruct(Insert(g.val.fields, loc.field, v)),
                            g.ls, g.sv, <<AccField(loc.field)>>)

AssignWithAccessor(loc, v, ls, sv, accessor) ==
    IF loc.l = "Id"
    THEN IF loc.id \in DOMAIN ls.vars \/ loc.id = RETURN
         THEN Assigned([ls EXCEPT !.vars = Insert(@, loc.id, UInit(v))], sv, "")
         ELSE Assigned([ls EXCEPT !.regs = Insert(@, loc.id, UInit(v))],
                       SolverAddEvent(sv, EvWriteReg(loc.id, accessor, v)), "")
    ELSE IF loc.l = "Field"
    THEN AssignField(loc, v, GetLocAndInitialize(loc.loc, ls, sv, <<AccField(loc.field)>>))
    ELSE Assigned(ls, sv, "panic")

Assign(loc, v, ls, sv) == AssignWithAccessor(loc, v, ls, sv, <<>>)

\* ------------------------------------------------------------------------
\* Frame, LocalFrame, Task
\* ------------------------------------------------------------------------

Arc(x) == [arc |-> x]
Deref(a) == a.arc

NoStack == [tag |-> "None"]
\* the closure of a Call: what it captured
SomeStack(caller, loc) == [tag |-> "Some", caller |-> caller, loc |-> loc]

NewMemory == <<>>

\* Frame::new
FrameNew(args, regs, lets, instrs) ==
    [pc |-> 0, branches |-> 0, backjumps |-> 0,
     local_state |-> Arc([vars |-> [k \in {args[i][1] : i \in DOMAIN args} |->
                                      Uninit(args[CHOOSE i \in DOMAIN args :
                                                    /\ args[i][1] = k
                                                    /\ \A j \in DOMAIN args :
                                                          args[j][1] = k => j <= i][2])],
                          regs |-> regs,
                          lets |-> Insert(Insert(lets, HAVE_EXCEPTION, UInit(VBool(FALSE))),
                                          NULL, UInit(VList(<<>>)))]),
     memory |-> Arc(NewMemory), instrs |-> instrs, stack |-> NoStack]

unfreeze_frame(frame) ==
    [pc |-> frame.pc, branches |-> frame.branches, backjumps |-> frame.backjumps,
     local_state |-> Deref(frame.local_state), memory |-> Deref(frame.memory),
     instrs |-> frame.instrs, stack |-> frame.stack]

freeze_frame_no_stack(frame) ==
    [pc |-> frame.pc, branches |-> frame.branches, backjumps |-> frame.backjumps,
     local_state |-> Arc(frame.local_state), memory |-> Arc(frame.memory),
     instrs |-> frame.instrs, stack |-> NoStack]

freeze_frame(frame) ==
    [pc |-> frame.pc, branches |-> frame.branches, backjumps |-> frame.backjumps,
     local_state |-> Arc(frame.local_state), memory |-> Arc(frame.memory),
     instrs |-> frame.instrs, stack |-> frame.stack]

NoDef == [tag |-> "None"]
SomeDef(def) == [tag |-> "Some", def |-> def]

Task(frame, point, fork_cond) == [frame |-> frame, checkpoint |-> point, fork_cond |-> fork_cond]

\* ------------------------------------------------------------------------
\* run: one instruction of the interpreter loop.  A step gives the frame and
\* solver after it, the tasks it pushed on the queue, and how the loop goes
\* on: Running, or the value or error that run returns.
\* ------------------------------------------------------------------------

Running == [tag |-> "Running"]
ROk(val) == [tag |-> "Ok", val |-> val]
RErr(err) == [tag |-> "Err", err |-> err]

Stepped(fr, sv, push, res) == [fr |-> fr, sv |-> sv, push |-> push, res |-> res]

\* an error of an evaluation or assignment ends the run at this instruction
FailedGoesOn(fr, ls, sv, err) ==
    [fr |-> [fr EXCEPT !.local_state = ls, !.pc = @ + 1], sv |-> sv, push |-> <<>>,
     res |-> Running]
Failed(fr, ls, sv, err) ==
    Stepped([fr EXCEPT !.local_state = ls], sv, <<>>, RErr(err))

Instrs(p, fr) == Functions(p)[fr.instrs].instrs

ExecDecl(fr, sv, ins) ==
    Stepped([fr EXCEPT !.local_state.vars = Insert(@, ins.v, Uninit(ins.ty)), !.pc = @ + 1],
            sv, <<>>, Running)

\* Init, v being the evaluated expression
InitWith(fr, ins, v) ==
    IF v.err # "" THEN Failed(fr, v.ls, v.sv, v.err)
    ELSE Stepped([fr EXCEPT !.local_state = [v.ls EXCEPT !.vars = Insert(@, ins.v, UInit(v.val))],
                            !.pc = @ + 1],
                 v.sv, <<>>, Running)

ExecInit(fr, sv, ins) == InitWith(fr, ins, EvalExp(ins.exp, fr.local_state, sv))

\* frame.branches += 1
NextBranchesStuck(b) == b
NextBranches(b) == b + 1

\* queue.push((frozen, point, Some(Assert(test_false))))
JumpPushNothing(frozen, point, test_false) == <<>>
JumpPushNoCond(frozen, point, test_false) == <<Task(frozen, point, NoDef)>>
JumpPush(frozen, point, test_false) ==
    <<Task(frozen, point, SomeDef(DefAssert(test_false)))>>

\* solver.add(Assert(test)) of a Jump only one side of which is feasible
JumpAssertNothing(sv, test) == sv
JumpAssert(sv, test) == SolverAdd(sv, DefAssert(test))

\* Jump, v being the evaluated condition
JumpOn(fr, ins, v) ==
    LET fr1 == [fr EXCEPT !.local_state = v.ls]
        test_true == XVar(v.val.v)
        test_false == XNot(XVar(v.val.v))
        can_be_true == CheckSatWith(v.sv, test_true)
        can_be_false == CheckSatWith(v.sv, test_false)
    IN IF v.err # "" THEN Failed(fr, v.ls, v.sv, v.err)
       ELSE IF v.val.tag = "Symbolic"
       THEN IF can_be_true /\ can_be_false
            THEN LET sv1 == SolverAddEvent(v.sv, EvBranch(fr1.branches, ins.loc))
                     fr2 == [fr1 EXCEPT !.branches = NextBranches(@)]
                     point == Checkpoint(sv1)
                     frozen == [freeze_frame(fr2) EXCEPT !.pc = fr2.pc + 1]
                 IN Stepped([fr2 EXCEPT !.pc = ins.target],
                            SolverAdd(sv1, DefAssert(test_true)),
                            JumpPush(frozen, point, test_false), Running)
            ELSE IF can_be_true
            THEN Stepped([fr1 EXCEPT !.pc = ins.target],
                         JumpAssert(v.sv, test_true), <<>>, Running)
            ELSE IF can_be_false
            THEN Stepped([fr1 EXCEPT !.pc = @ + 1],
                         JumpAssert(v.sv, test_false), <<>>, Running)
            ELSE Stepped(fr1, v.sv, <<>>, RErr("Dead"))
       ELSE IF v.val.tag = "Bool"
       THEN IF v.val.b THEN Stepped([fr1 EXCEPT !.pc = ins.target], v.sv, <<>>, Running)
            ELSE Stepped([fr1 EXCEPT !.pc = @ + 1], v.sv, <<>>, Running)
       ELSE Stepped(fr1, v.sv, <<>>, RErr("Type"))

ExecJump(fr, sv, ins) == JumpOn(fr, ins, EvalExp(ins.exp, fr.local_state, sv))

ExecGoto(fr, sv, ins) == Stepped([fr EXCEPT !.pc = ins.target], sv, <<>>, Running)

\* Copy, a being the outcome of the assignment
CopyAssigned(fr, a) ==
    IF a.err # "" THEN Failed(fr, a.ls, a.sv, a.err)
    ELSE Stepped([fr EXCEPT !.local_state = a.ls, !.pc = @ + 1], a.sv, <<>>, Running)

\* Copy, v being the evaluated expression
CopyWith(fr, ins, v) ==
    IF v.err # "" THEN Failed(fr, v.ls, v.sv, v.err)
    ELSE CopyAssigned(fr, Assign(ins.loc, v.val, v.ls, v.sv))

ExecCopy(fr, sv, ins) == CopyWith(fr, ins, EvalExp(ins.exp, fr.local_state, sv))

\* frame.pc = caller.pc + 1
ReturnPcSame(caller) == caller.pc
ReturnPc(caller) == caller.pc + 1

\* a continuation that restores the whole local state of the caller
RestoredWholeState(caller, fr) ==
    [fr EXCEPT !.pc = ReturnPc(caller),
               !.local_state = Deref(caller.local_state),
               !.instrs = caller.instrs,
               !.stack = caller.stack]

\* the frame the continuation restores before it assigns the returned value
Restored(caller, fr) ==
    [fr EXCEPT !.pc = ReturnPc(caller),
               !.local_state.vars = Deref(caller.local_state).vars,
               !.instrs = caller.instrs,
               !.stack = caller.stack]

\* the continuation after its assignment a into the restored frame fr1
Returned(fr1, a) ==
    IF a.err # "" THEN Failed(fr1, a.ls, a.sv, a.err)
    ELSE Stepped([fr1 EXCEPT !.local_state = a.ls], a.sv, <<>>, Running)

\* the closure a Call leaves in frame.stack, applied to the returned value
ApplyStack(stack, ret, fr, sv) ==
    Returned(Restored(stack.caller, fr),
             Assign(stack.loc, ret, Restored(stack.caller, fr).local_state, sv))

\* a Call that binds the parameters on top of the caller's variables
CallWithKeepsLocals(fr, ins, fn, args) ==
         LET fr1 == [fr EXCEPT !.local_state = args.ls]
             caller == freeze_frame(fr1)
         IN IF args.err # "" THEN Failed(fr, args.ls, args.sv, args.err)
            ELSE Stepped([fr1 EXCEPT !.stack = SomeStack(caller, ins.loc),
                                     !.local_state.vars =
                                         [k \in DOMAIN args.ls.vars
                                                 \cup {fn.params[i] : i \in DOMAIN args.vals} |->
                                            IF \E i \in DOMAIN args.vals : fn.params[i] = k
                                            THEN UInit(args.vals[CHOOSE i \in DOMAIN args.vals :
                                                                   fn.params[i] = k])
                                            ELSE args.ls.vars[k]],
                                     !.pc = 0,
                                     !.instrs = ins.f],
                         args.sv, <<>>, Running)

\* Call of the function fn of the program, args being the evaluated arguments
CallWith(fr, ins, fn, args) ==
         LET fr1 == [fr EXCEPT !.local_state = args.ls]
             caller == freeze_frame(fr1)
         IN IF args.err # "" THEN Failed(fr, args.ls, args.sv, args.err)
            ELSE Stepped([fr1 EXCEPT !.stack = SomeStack(caller, ins.loc),
                                     !.local_state.vars =
                                         [k \in {fn.params[i] : i \in DOMAIN args.vals} |->
                                            UInit(args.vals[CHOOSE i \in DOMAIN args.vals :
                                                              /\ fn.params[i] = k
                                                              /\ \A j \in DOMAIN args.vals :
                                                                    fn.params[j] = k => j <= i])],
                                     !.pc = 0,
                                     !.instrs = ins.f],
                         args.sv, <<>>, Running)

\* the call of INTERNAL_VECTOR_INIT with one argument, arg being its value
VectorInit(fr, ins, arg) ==
    IF arg.err # "" THEN Failed(fr, arg.ls, arg.sv, arg.err)
    ELSE IF /\ ins.loc.l = "Id" /\ arg.val.tag = "I64"
            /\ ins.loc.id \in DOMAIN arg.ls.vars
            /\ arg.ls.vars[ins.loc.id].tag = "Uninit"
            /\ arg.ls.vars[ins.loc.id].ty.t = "Vector"
    THEN CopyAssigned(fr, Assign(ins.loc, VVector([i \in 1..arg.val.i |-> VPoison]),
                                 arg.ls, arg.sv))
    ELSE Failed(fr, arg.ls, arg.sv, "Type")

\* the call of a constructor of a union, arg being the value of its argument
CtorCall(fr, ins, arg) ==
    IF arg.err # "" THEN Failed(fr, arg.ls, arg.sv, arg.err)
    ELSE CopyAssigned(fr, Assign(ins.loc, VCtor(ins.f, arg.val), arg.ls, arg.sv))

\* the call of a name that is no function of the program
CallIntrinsic(fr, sv, ins) ==
    IF ins.f = INTERNAL_VECTOR_INIT /\ Len(ins.args) = 1
    THEN VectorInit(fr, ins, EvalExp(ins.args[1], fr.local_state, sv))
    ELSE IF ins.f = INTERNAL_VECTOR_UPDATE
    THEN Stepped([fr EXCEPT !.pc = @ + 1], sv, <<>>, Running)
    ELSE IF ins.f = SAIL_EXIT
    THEN Stepped(fr, sv, <<>>, RErr("Exit"))
    ELSE IF ins.f \in UnionCtors /\ Len(ins.args) = 1
    THEN CtorCall(fr, ins, EvalExp(ins.args[1], fr.local_state, sv))
    ELSE Stepped(fr, sv, <<>>, RErr("panic"))

ExecCall(p, fr, sv, ins) ==
    IF ins.f \notin DOMAIN Functions(p)
    THEN CallIntrinsic(fr, sv, ins)
    ELSE CallWith(fr, ins, Functions(p)[ins.f], EvalArgs(ins.args, fr.local_state, sv))

\* End, s being the value of RETURN
EndWith(fr, s) ==
    IF fr.stack.tag = "None" THEN Stepped(fr, s.sv, <<>>, ROk(s.val))
    ELSE ApplyStack(fr.stack, s.val, fr, s.sv)

ExecEnd(fr, sv) ==
    IF RETURN \notin DOMAIN fr.local_state.vars
    THEN Stepped(fr, sv, <<>>, RErr("panic"))
    ELSE IF fr.local_state.vars[RETURN].tag = "Uninit"
    THEN EndWith(fr, Symbolic(fr.local_state.vars[RETURN].ty, sv))
    ELSE EndWith(fr, [val |-> fr.local_state.vars[RETURN].val, sv |-> sv])

\* the primitive ite of variadic_primops on a boolean condition
ite(args) == IF args[1].b THEN args[2] ELSE args[3]

\* PrimopVariadic, a being the evaluated arguments
PrimopVariadicWith(fr, ins, a) ==
    IF a.err # "" THEN Failed(fr, a.ls, a.sv, a.err)
    ELSE CopyAssigned(fr, Assign(ins.loc, ite(a.vals), a.ls, a.sv))

ExecPrimopVariadic(fr, sv, ins) ==
    PrimopVariadicWith(fr, ins, EvalArgs(ins.args, fr.local_state, sv))

ExecOther(fr, sv) == Stepped([fr EXCEPT !.pc = @ + 1], sv, <<>>, Running)

\* a fall from the end that returns Unit to the caller of the function
ExecFellOffReturns(fr, sv) ==
    IF fr.stack.tag = "None" THEN Stepped(fr, sv, <<>>, ROk(VUnit))
    ELSE ApplyStack(fr.stack, VUnit, fr, sv)

ExecFellOff(fr, sv) == Stepped(fr, sv, <<>>, ROk(VUnit))

\* the instruction at pc, or the fall from the end of the instruction list
ExecStep(p, fr, sv) ==
    IF fr.pc >= Len(Instrs(p, fr)) THEN ExecFellOff(fr, sv)
    ELSE LET ins == Instrs(p, fr)[fr.pc + 1]
         IN CASE ins.op = "Decl" -> ExecDecl(fr, sv, ins)
              [] ins.op = "Init" -> ExecInit(fr, sv, ins)
              [] ins.op = "Jump" -> ExecJump(fr, sv, ins)
              [] ins.op = "Goto" -> ExecGoto(fr, sv, ins)
              [] ins.op = "Copy" -> ExecCopy(fr, sv, ins)
              [] ins.op = "PrimopVariadic" -> ExecPrimopVariadic(fr, sv, ins)
              [] ins.op = "Call" -> ExecCall(p, fr, sv, ins)
              [] ins.op = "End" -> ExecEnd(fr, sv)
              [] OTHER -> ExecOther(fr, sv)

\* run, up to and including the next instruction that pushes a task or
\* ends the path: the steps between touch only the path's own frame and solver
RECURSIVE RunSegment(_, _, _)
RunSegment(p, fr, sv) ==
    CHOOSE r \in {IF s.push # <<>> \/ s.res.tag # "Running" THEN s
                  ELSE RunSegment(p, s.fr, s.sv) : s \in {ExecStep(p, fr, sv)}} : TRUE

\* do_work / the body of start_single's loop, up to the call of run:
\* the solver is rebuilt from the checkpoint and the fork condition added
StartSolverAnew(task) ==
    IF task.fork_cond.tag = "Some" THEN SolverAdd(NewSolver, task.fork_cond.def) ELSE NewSolver

StartSolver(task) ==
    LET sv == FromCheckpoint(task.checkpoint)
    IN IF task.fork_cond.tag = "Some" THEN SolverAdd(sv, task.fork_cond.def) ELSE sv

\* the task a caller hands to start_single or start_multi for program p
InitialTask(p) ==
    Task(FrameNew(Program(p).args, Program(p).regs, Program(p).lets, "main"),
         Checkpoint(NewSolver), NoDef)

\* what the collector is called with
Collected(res, fr, sv) ==
    [result |-> IF res.tag = "Ok" THEN [tag |-> "Ok", val |-> res.val, frame |-> fr] ELSE res,
     solver |-> sv]

\* ------------------------------------------------------------------------
\* The linearizer   (ir/linearize.rs).  Labels, the control-flow graph and
\* its SSA form are those of ir.rs and ir/ssa.rs, which are not part of the
\* sources.
\* ------------------------------------------------------------------------

\* the instruction lists the linearizer is given; C1 and C2 are registers
\* that hold booleans, R is a register, x is a local variable
LinProgram(name) ==
    CASE name = "lin_straight" ->
           <<InitI("x", TI64, EI64(1)), Copy(LId(RETURN), EId("x")), End>>
      [] name = "lin_ret" ->
           <<Jump(EId("C1"), 3, "l"), Copy(LId(RETURN), EI64(1)), Goto(4),
             Copy(LId(RETURN), EI64(2)), End>>
      [] name = "lin_local" ->
           <<Decl("x", TI64), Jump(EId("C1"), 4, "l"), Copy(LId("x"), EI64(1)), Goto(5),
             Copy(LId("x"), EI64(2)), Copy(LId(RETURN), EId("x")), End>>
      [] name = "lin_nested" ->
           <<Jump(EId("C1"), 6, "l"), Jump(EId("C2"), 4, "m"), Copy(LId(RETURN), EI64(1)),
             Goto(7), Copy(LId(RETURN), EI64(2)), Goto(7), Copy(LId(RETURN), EI64(3)), End>>
      [] name = "lin_reg" ->
           \* the two sides of the Jump write the register R
           <<Jump(EId("C1"), 3, "l"), Copy(LId("R"), EI64(1)), Goto(4),
             Copy(LId("R"), EI64(2)), Copy(LId(RETURN), EI64(0)), End>>
      [] name = "lin_early" ->
           \* each side of the Jump ends the function
           <<Jump(EId("C1"), 3, "l"), Copy(LId(RETURN), EI64(1)), End,
             Copy(LId(RETURN), EI64(2)), End>>
      [] name = "lin_back" ->
           \* a Goto that goes back, and no cycle
           <<Goto(2), End, Copy(LId(RETURN), EI64(1)), Goto(1)>>
      [] name = "lin_loop" ->
           <<Decl("x", TI64), Jump(EId("C1"), 3, "l"), Goto(1),
             Copy(LId(RETURN), EI64(1)), End>>
      [] name = "lin_self" ->
           <<Copy(LId(RETURN), EI64(1)), Goto(1), End>>
      [] name = "lin_next" ->
           \* the target of the Jump is the instruction after it
           <<Jump(EId("C1"), 1, "l"), Copy(LId(RETURN), EI64(1)), End>>
      [] name = "lin_noret" ->
           \* RETURN is not written
           <<Jump(EId("C1"), 3, "l"), Copy(LId("R"), EI64(1)), Goto(4),
             Copy(LId("R"), EI64(2)), End>>
      [] OTHER ->
           \* lin_spin
           <<Jump(EId("C1"), 0, "l"), Copy(LId("R"), EI64(1)), End>>

LinPrograms ==
    {"lin_straight", "lin_ret", "lin_local", "lin_nested", "lin_reg", "lin_early", "lin_back",
     "lin_loop", "lin_self", "lin_spin", "lin_noret",
     "lin_next"}

Labeled(label, instr) == [label |-> label, instr |-> instr]
Unlabeled(instr) == [label |-> -1, instr |-> instr]

\* label_instrs: every instruction is labeled with its index
label_instrs(instrs) == [i \in DOMAIN instrs |-> Labeled(i - 1, instrs[i])]

JumpTargets(labeled) ==
    {labeled[i].instr.target : i \in {j \in DOMAIN labeled : labeled[j].instr.op \in {"Jump", "Goto"}}}

\* prune_labels: only the targets of a Jump or Goto keep their label
prune_labels(labeled) ==
    [i \in DOMAIN labeled |->
        IF labeled[i].label \in JumpTargets(labeled) THEN labeled[i]
        ELSE Unlabeled(labeled[i].instr)]

\* the index unlabel_instrs has for a label in its jump table
JumpTable(labeled, label) ==
    (CHOOSE i \in DOMAIN labeled :
        /\ labeled[i].label = label
        /\ \A j \in DOMAIN labeled : labeled[j].label = label => j <= i) - 1

\* unlabel_instrs: the labels go, the targets become the indices of the labels
unlabel_instrs(labeled) ==
    [i \in DOMAIN labeled |->
        IF labeled[i].instr.op \in {"Jump", "Goto"}
        THEN [labeled[i].instr EXCEPT !.target = JumpTable(labeled, @)]
        ELSE labeled[i].instr]

\* the instructions that end a block
IsTerminator(ins) == ins.op \in {"Jump", "Goto", "End", "Arbitrary"}
Continue == [op |-> "Continue"]

\* a block begins at the first instruction, at every label and after every terminator
BlockStarts(labeled) ==
    {i \in DOMAIN labeled :
        \/ i = 1
        \/ labeled[i].label # -1
        \/ IsTerminator(labeled[i - 1].instr)}

NthStart(starts, k) == CHOOSE s \in starts : Cardinality({t \in starts : t < s}) = k - 1

\* the block of the instructions from..to
BlockOf(labeled, from, to) ==
    [label |-> labeled[from].label,
     phis |-> <<>>,
     instrs |-> [i \in 1..((IF IsTerminator(labeled[to].instr) THEN to - 1 ELSE to) - from + 1)
                   |-> labeled[from + i - 1].instr],
     terminator |-> IF IsTerminator(labeled[to].instr) THEN labeled[to].instr ELSE Continue]

Blocks(labeled, starts) ==
    [k \in 1..Cardinality(starts) |->
        BlockOf(labeled, NthStart(starts, k),
                IF k = Cardinality(starts) THEN Len(labeled) ELSE NthStart(starts, k + 1) - 1)]

NodeOf(blocks, label) == CHOOSE k \in DOMAIN blocks : blocks[k].label = label

CfgEdge(src, dst, kind) == [src |-> src, dst |-> dst, kind |-> kind]

\* the edges that leave block k
EdgesFrom(blocks, k) ==
    LET t == blocks[k].terminator
        next == IF k < Len(blocks) THEN {k + 1} ELSE {}
    IN CASE t.op = "Continue" -> {CfgEdge(k, n, "Continue") : n \in next}
         [] t.op = "Goto" -> {CfgEdge(k, NodeOf(blocks, t.target), "Goto")}
         [] t.op = "Jump" ->
              {CfgEdge(k, NodeOf(blocks, t.target), "JumpTrue")}
              \cup {CfgEdge(k, n, "JumpFalse") : n \in next}
         [] OTHER -> {}

\* CFG::new: the blocks, and the edges between them; the root is block 1
CfgNew(labeled) ==
    LET blocks == Blocks(labeled, BlockStarts(labeled))
    IN [blocks |-> blocks, edges |-> UNION {EdgesFrom(blocks, k) : k \in DOMAIN blocks}]

Position(order, n) == CHOOSE i \in DOMAIN order : order[i] = n

\* algo::toposort gives Ok with an order in which every edge goes forward,
\* and Err when there is none
TopoOrders(cfg) ==
    {order \in Permutations(DOMAIN cfg.blocks) :
        \A e \in cfg.edges : Position(order, e.src) < Position(order, e.dst)}

\* the PrimopVariadic instruction of the primitive ite
PrimopVariadic(loc, f, args) == [op |-> "PrimopVariadic", loc |-> loc, f |-> f, args |-> args]

\* a name and its SSA number; the number is -1 before cfg.ssa()
SSAName(name, number) == [name |-> name, number |-> number]

Nodes(cfg) == DOMAIN cfg.blocks

\* the elements of a set of numbers, ascending
Ascending(S) == [k \in 1..Cardinality(S) |-> NthStart(S, k)]
\* and descending
Descending(S) == [k \in 1..Cardinality(S) |-> NthStart(S, Cardinality(S) + 1 - k)]

RECURSIVE SetToSeq(_)
SetToSeq(S) ==
    IF S = {} THEN <<>> ELSE LET x == CHOOSE y \in S : TRUE IN <<x>> \o SetToSeq(S \ {x})

\* neighbors_directed(n, Incoming): the sources of the edges to n, the edge
\* added last first
Preds(cfg, n) == Descending({e.src : e \in {f \in cfg.edges : f.dst = n}})

\* find_edge(pred, n)
FindEdge(cfg, pred, n) == CHOOSE e \in cfg.edges : e.src = pred /\ e.dst = n

Succs(cfg, S) == {e.dst : e \in {f \in cfg.edges : f.src \in S}}

RECURSIVE ReachAvoiding(_, _, _)
\* the nodes reached from those of S on paths that do not enter d
ReachAvoiding(cfg, S, d) ==
    LET T == S \cup (Succs(cfg, S) \ {d})
    IN IF T = S THEN S ELSE ReachAvoiding(cfg, T, d)

\* every path from the root to n goes through d
Dominates(cfg, d, n) == d = n \/ n \notin ReachAvoiding(cfg, {1} \ {d}, d)

StrictDoms(cfg, n) == {d \in Nodes(cfg) \ {n} : Dominates(cfg, d, n)}

\* the immediate dominator of a node other than the root
Idom(cfg, n) ==
    CHOOSE d \in StrictDoms(cfg, n) : \A e \in StrictDoms(cfg, n) : Dominates(cfg, e, d)

DomChildren(cfg, d) == {n \in Nodes(cfg) \ {1} : Idom(cfg, n) = d}

RECURSIVE DomPreorder(_, _)
RECURSIVE DomPreorderAll(_, _)
\* the walk of the dominator tree below d, a node before its children
DomPreorder(cfg, d) == <<d>> \o DomPreorderAll(cfg, Ascending(DomChildren(cfg, d)))
DomPreorderAll(cfg, kids) ==
    IF kids = <<>> THEN <<>>
    ELSE DomPreorder(cfg, Head(kids)) \o DomPreorderAll(cfg, Tail(kids))

\* the dominance frontier of x
Frontier(cfg, x) ==
    {y \in Nodes(cfg) :
        /\ \E e \in cfg.edges : e.dst = y /\ Dominates(cfg, x, e.src)
        /\ ~(x # y /\ Dominates(cfg, x, y))}

RECURSIVE IteratedFrontier(_, _, _)
IteratedFrontier(cfg, S, acc) ==
    LET T == UNION {Frontier(cfg, x) : x \in S \cup acc}
    IN IF T = acc THEN acc ELSE IteratedFrontier(cfg, S, T)

\* write_ssa: the name an instruction of a block writes
WriteOf(ins) == IF ins.op \in {"Decl", "Init"} THEN ins.v ELSE ins.loc.id

WrittenIn(block) == {WriteOf(block.instrs[i]) : i \in DOMAIN block.instrs}

\* the names some instruction writes: these are the names cfg.ssa() numbers
AllVars(cfg) == UNION {WrittenIn(cfg.blocks[n]) : n \in Nodes(cfg)}

\* the names that get a phi function at node n
PhiVars(cfg, n) ==
    {v \in AllVars(cfg) :
        n \in IteratedFrontier(cfg, {k \in Nodes(cfg) : v \in WrittenIn(cfg.blocks[k])}, {})}

\* the name with the number it has at this point; a name that is never
\* written, or not yet, keeps -1
Versioned(id, ver) == SSAName(id, IF id \in DOMAIN ver THEN ver[id] ELSE -1)

RECURSIVE RenameExp(_, _)
RenameExp(exp, ver) ==
    CASE exp.e = "Id" -> EId(Versioned(exp.id, ver))
      [] exp.e = "Call" ->
           ECall(exp.opr, [i \in DOMAIN exp.args |-> RenameExp(exp.args[i], ver)])
      [] OTHER -> exp

\* the state of the renaming: the last number given to each name, the
\* numbers at the end of each node done, and the nodes in SSA form
RenameInstr(ins, ver, number) ==
    CASE ins.op = "Decl" -> Decl(SSAName(ins.v, number), ins.ty)
      [] ins.op = "Init" -> InitI(SSAName(ins.v, number), ins.ty, RenameExp(ins.exp, ver))
      [] OTHER -> Copy(LId(SSAName(ins.loc.id, number)), RenameExp(ins.exp, ver))

RECURSIVE RenameInstrs(_, _, _, _)
\* the instructions of a node from the i-th on; r holds counts, ver and the
\* instructions done
RenameInstrs(instrs, i, r, n) ==
    IF i > Len(instrs) THEN r
    ELSE LET w == WriteOf(instrs[i])
             number == r.counts[w] + 1
         IN RenameInstrs(instrs, i + 1,
                [counts |-> [r.counts EXCEPT ![w] = number],
                 ver |-> [r.ver EXCEPT ![w] = number],
                 done |-> Append(r.done, RenameInstr(instrs[i], r.ver, number))], n)

RECURSIVE RenamePhis(_, _)
\* the phi functions of a node get their numbers first
RenamePhis(vs, r) ==
    IF vs = <<>> THEN r
    ELSE LET number == r.counts[Head(vs)] + 1
         IN RenamePhis(Tail(vs),
                [counts |-> [r.counts EXCEPT ![Head(vs)] = number],
                 ver |-> [r.ver EXCEPT ![Head(vs)] = number],
                 done |-> Append(r.done, SSAName(Head(vs), number))])

RenameTerminator(t, ver) ==
    IF t.op = "Jump" THEN Jump(RenameExp(t.exp, ver), t.target, t.loc) ELSE t

RECURSIVE RenameNodes(_, _, _, _)
\* the nodes of order from the i-th on
RenameNodes(cfg, order, i, st) ==
    IF i > Len(order) THEN st
    ELSE LET n == order[i]
             entry == IF n = 1 THEN [v \in AllVars(cfg) |-> -1] ELSE st.exit[Idom(cfg, n)]
             p == RenamePhis(SetToSeq(PhiVars(cfg, n)),
                             [counts |-> st.counts, ver |-> entry, done |-> <<>>])
             r == RenameInstrs(cfg.blocks[n].instrs, 1,
                               [counts |-> p.counts, ver |-> p.ver, done |-> <<>>], n)
         IN RenameNodes(cfg, order, i + 1,
                [counts |-> r.counts,
                 exit |-> [st.exit EXCEPT ![n] = r.ver],
                 phis |-> [st.phis EXCEPT ![n] = p.done],
                 instrs |-> [st.instrs EXCEPT ![n] = r.done],
                 terminator |-> [st.terminator EXCEPT
                                    ![n] = RenameTerminator(cfg.blocks[n].terminator, r.ver)]])

\* cfg.ssa(): phi functions where two definitions meet, and a number for
\* every definition; the first number of a name is 0
Ssa(cfg) ==
    LET st == RenameNodes(cfg, DomPreorder(cfg, 1), 1,
                  [counts |-> [v \in AllVars(cfg) |-> -1],
                   exit |-> [n \in Nodes(cfg) |-> [v \in AllVars(cfg) |-> -1]],
                   phis |-> [n \in Nodes(cfg) |-> <<>>],
                   instrs |-> [n \in Nodes(cfg) |-> <<>>],
                   terminator |-> [n \in Nodes(cfg) |-> Continue]])
    IN [blocks |->
            [n \in Nodes(cfg) |->
                [label |-> cfg.blocks[n].label,
                 phis |-> [j \in DOMAIN st.phis[n] |->
                             [id |-> st.phis[n][j],
                              args |-> [k \in DOMAIN Preds(cfg, n) |->
                                          SSAName(st.phis[n][j].name,
                                                  st.exit[Preds(cfg, n)[k]][st.phis[n][j].name])]]],
                 instrs |-> st.instrs[n],
                 terminator |-> st.terminator[n]]],
        edges |-> cfg.edges]

\* Reachability: a boolean formula over the edges of the graph
RTrue == [r |-> "True"]
RFalse == [r |-> "False"]
REdge(edge) == [r |-> "Edge", edge |-> edge]
RAnd(lhs, rhs) == [r |-> "And", lhs |-> lhs, rhs |-> rhs]
ROr(lhs, rhs) == [r |-> "Or", lhs |-> lhs, rhs |-> rhs]

\* the condition under which the terminator takes the edge
terminator_reachability_exp(terminator, edge) ==
    CASE terminator.op = "Continue" /\ edge.kind = "Continue" -> EBool(TRUE)
      [] terminator.op = "Goto" /\ edge.kind = "Goto" -> EBool(TRUE)
      [] terminator.op = "Jump" /\ edge.kind = "JumpTrue" -> terminator.exp
      [] terminator.op = "Jump" /\ edge.kind = "JumpFalse" -> ECall("Not", <<terminator.exp>>)

RECURSIVE ReachabilityExp(_, _)
\* Reachability::exp
ReachabilityExp(r, cfg) ==
    CASE r.r = "True" -> EBool(TRUE)
      [] r.r = "False" -> EBool(FALSE)
      [] r.r = "Edge" ->
           terminator_reachability_exp(cfg.blocks[r.edge.src].terminator, r.edge)
      [] r.r = "And" -> ECall("And", <<ReachabilityExp(r.lhs, cfg), ReachabilityExp(r.rhs, cfg)>>)
      [] r.r = "Or" -> ECall("Or", <<ReachabilityExp(r.lhs, cfg), ReachabilityExp(r.rhs, cfg)>>)

\* self | rhs
BitOr(lhs, rhs) ==
    CASE lhs.r = "True" -> RTrue
      [] rhs.r = "True" -> RTrue
      [] lhs.r = "False" -> rhs
      [] rhs.r = "False" -> lhs
      [] OTHER -> ROr(lhs, rhs)

\* self & rhs
BitAnd(lhs, rhs) ==
    CASE lhs.r = "True" -> rhs
      [] rhs.r = "True" -> lhs
      [] lhs.r = "False" -> RFalse
      [] rhs.r = "False" -> RFalse
      [] OTHER -> RAnd(lhs, rhs)

RECURSIVE ReachedBy(_, _, _, _, _)
\* the loop over the incoming neighbours of ix, from the k-th on
ReachedBy(cfg, reachability, ix, k, r) ==
    IF k > Len(Preds(cfg, ix)) THEN r
    ELSE LET pred == Preds(cfg, ix)[k]
         IN ReachedBy(cfg, reachability, ix, k + 1,
                      BitOr(r, BitAnd(reachability[pred], REdge(FindEdge(cfg, pred, ix)))))

RECURSIVE ComputeReachabilityFrom(_, _, _, _)
ComputeReachabilityFrom(cfg, topo_order, i, reachability) ==
    IF i > Len(topo_order) THEN reachability
    ELSE LET ix == topo_order[i]
         IN ComputeReachabilityFrom(cfg, topo_order, i + 1,
                [reachability EXCEPT
                    ![ix] = ReachedBy(cfg, reachability, ix, 1, IF ix = 1 THEN RTrue ELSE RFalse)])

\* the reachability condition of every node; a node is done after the
\* nodes before it in topo_order
compute_reachability(cfg, topo_order) ==
    ComputeReachabilityFrom(cfg, topo_order, 1, [n \in Nodes(cfg) |-> RFalse])

\* symtab.gensym() for an SSA name: a name no other name has
Gensym(id) == id.name \o "/" \o ToString(id.number)

\* SSAName::unssa: a name without a number is itself, a numbered name is
\* the name generated for it
Unssa(id) == IF id.number < 0 THEN id.name ELSE Gensym(id)

RECURSIVE unssa_exp(_)
unssa_exp(exp) ==
    CASE exp.e = "Id" -> EId(Unssa(exp.id))
      [] exp.e = "Call" -> ECall(exp.opr, [i \in DOMAIN exp.args |-> unssa_exp(exp.args[i])])
      [] OTHER -> exp

unssa_loc(loc) == LId(Unssa(loc.id))

unssa_block_instr(ins) ==
    CASE ins.op = "Decl" -> Decl(Unssa(ins.v), ins.ty)
      [] ins.op = "Init" -> InitI(Unssa(ins.v), ins.ty, unssa_exp(ins.exp))
      [] ins.op = "Copy" -> Copy(unssa_loc(ins.loc), unssa_exp(ins.exp))

\* apply_label: the label goes to the first instruction pushed
apply_label(label, instrs) ==
    [i \in DOMAIN instrs |-> IF i = 1 THEN Labeled(label, instrs[i]) ELSE Unlabeled(instrs[i])]

\* symtab.gensym() in ite_chain for the rest of the chain that defines id
GensymRest(id) == id \o "+"

RECURSIVE ite_chain(_, _, _, _)
\* id := first when there is no rest; else the rest into a new name gs and
\* then id := ite(path_conds[i], first, gs)
ite_chain(i, path_conds, id, args) ==
    IF Len(args) > 1
    THEN Append(ite_chain(i + 1, path_conds, GensymRest(id), Tail(args)),
                PrimopVariadic(LId(id), "ite",
                               <<unssa_exp(path_conds[i]), EId(Unssa(Head(args))),
                                 EId(GensymRest(id))>>))
    ELSE <<Copy(LId(id), EId(Unssa(Head(args))))>>

\* the conditions in the opposite order
PathCondsReversed(cfg, reachability, n) ==
    [k \in DOMAIN Preds(cfg, n) |->
        ReachabilityExp(BitAnd(reachability[Preds(cfg, n)[Len(Preds(cfg, n)) + 1 - k]],
                               REdge(FindEdge(cfg, Preds(cfg, n)[Len(Preds(cfg, n)) + 1 - k], n))),
                        cfg)]

\* the conditions of the incoming edges of n, in the order of the neighbours
PathConds(cfg, reachability, n) ==
    [k \in DOMAIN Preds(cfg, n) |->
        ReachabilityExp(BitAnd(reachability[Preds(cfg, n)[k]],
                               REdge(FindEdge(cfg, Preds(cfg, n)[k], n))), cfg)]

linearize_phi(phi, n, cfg, reachability) ==
    ite_chain(1, PathConds(cfg, reachability, n), Unssa(phi.id), phi.args)

RECURSIVE LinearizePhis(_, _, _, _)
LinearizePhis(phis, n, cfg, reachability) ==
    IF phis = <<>> THEN <<>>
    ELSE linearize_phi(Head(phis), n, cfg, reachability)
         \o LinearizePhis(Tail(phis), n, cfg, reachability)

\* the phi functions of the node, then its instructions; its terminator is
\* not pushed
linearize_block(n, cfg, reachability) ==
    apply_label(cfg.blocks[n].label,
                LinearizePhis(cfg.blocks[n].phis, n, cfg, reachability)
                \o [i \in DOMAIN cfg.blocks[n].instrs |-> unssa_block_instr(cfg.blocks[n].instrs[i])])

RECURSIVE LinearizeBlocks(_, _, _, _)
LinearizeBlocks(topo_order, i, cfg, reachability) ==
    IF i > Len(topo_order) THEN <<>>
    ELSE linearize_block(topo_order[i], cfg, reachability)
         \o LinearizeBlocks(topo_order, i + 1, cfg, reachability)

\* the numbers of RETURN in the instructions and the phi functions
ReturnNumbers(cfg) ==
    UNION {{WriteOf(cfg.blocks[n].instrs[i]).number :
               i \in {j \in DOMAIN cfg.blocks[n].instrs :
                          WriteOf(cfg.blocks[n].instrs[j]).name = RETURN}}
           \cup {cfg.blocks[n].phis[i].id.number :
                    i \in {j \in DOMAIN cfg.blocks[n].phis :
                               cfg.blocks[n].phis[j].id.name = RETURN}} : n \in Nodes(cfg)}

\* the lowest number of RETURN
LastReturnLowest(cfg) ==
    IF ReturnNumbers(cfg) = {} THEN -1
    ELSE CHOOSE m \in ReturnNumbers(cfg) : \A k \in ReturnNumbers(cfg) : m <= k

\* the highest number of RETURN, -1 when RETURN is not written
LastReturn(cfg) ==
    IF ReturnNumbers(cfg) = {} THEN -1
    ELSE CHOOSE m \in ReturnNumbers(cfg) : \A k \in ReturnNumbers(cfg) : k <= m

\* the Copy to RETURN that follows the nodes
ReturnCopy(last_return) ==
    IF last_return >= 0
    THEN <<Unlabeled(Copy(LId(RETURN), EId(Unssa(SSAName(RETURN, last_return)))))>>
    ELSE <<>>

\* the result of linearize when toposort gives topo_order
Linearized(cfg, topo_order) ==
    unlabel_instrs(LinearizeBlocks(topo_order, 1, cfg, compute_reachability(cfg, topo_order))
                   \o ReturnCopy(LastReturn(cfg))
                   \o <<Unlabeled(End)>>)

\* run on a list of instructions without calls: the instruction at pc
ExecInstr(instrs, fr, sv) ==
    IF fr.pc >= Len(instrs) THEN ExecFellOff(fr, sv)
    ELSE LET ins == instrs[fr.pc + 1]
         IN CASE ins.op = "Decl" -> ExecDecl(fr, sv, ins)
              [] ins.op = "Init" -> ExecInit(fr, sv, ins)
              [] ins.op = "Jump" -> ExecJump(fr, sv, ins)
              [] ins.op = "Goto" -> ExecGoto(fr, sv, ins)
              [] ins.op = "Copy" -> ExecCopy(fr, sv, ins)
              [] ins.op = "PrimopVariadic" -> ExecPrimopVariadic(fr, sv, ins)
              [] ins.op = "End" -> ExecEnd(fr, sv)
              [] OTHER -> ExecOther(fr, sv)

RECURSIVE RunInstrs(_, _, _)
\* run, to the end of the path
RunInstrs(instrs, fr, sv) ==
    CHOOSE r \in {IF s.res.tag # "Running" THEN s ELSE RunInstrs(instrs, s.fr, s.sv) :
                  s \in {ExecInstr(instrs, fr, sv)}} : TRUE

\* the WriteReg events of a trace
WriteRegs(trace) == SelectSeq(trace, LAMBDA ev : ev.ev = "WriteReg")

\* what a run of the instructions gives when the registers C1 and C2 hold regs
NoRun == [res |-> Running, writes |-> <<>>]
RunOf(instrs, regs) ==
    LET r == RunInstrs(instrs,
                       unfreeze_frame(FrameNew(<<>>, [c \in DOMAIN regs |-> UInit(VBool(regs[c]))],
                                               EmptyMap, "main")),
                       NewSolver)
    IN [res |-> r.res, writes |-> WriteRegs(r.sv.trace)]

\* unlabel_instrs(labeled), the result of linearize when toposort fails
PassThroughAndEnd(labeled) == Append(unlabel_instrs(labeled), End)
PassThrough(labeled) == unlabel_instrs(labeled)

\* ------------------------------------------------------------------------
\* The collectors the engine provides.  A run is given one of them; the
\* model keeps the state of each as it is when that one is the collector.
\* ------------------------------------------------------------------------

\* solver.add(Assert(Not(Var(v)))); solver.check_sat() != SmtResult::Unsat
GotSat(v, sv) == Satisfiable(SolverAdd(sv, DefAssert(XNot(XVar(v)))).asserted)

\* all_unsat_collector, b being the boolean behind the mutex
AllUnsatValueClears(res, sv, b) ==
    IF res.tag = "Ok" /\ res.val.tag \notin {"Symbolic", "Bool"} THEN FALSE ELSE b
all_unsat_collector(res, sv, b) ==
    CASE res.tag = "Ok" /\ res.val.tag = "Symbolic" ->
           IF GotSat(res.val.v, sv) THEN b /\ FALSE ELSE b
      [] res.tag = "Ok" /\ res.val.tag = "Bool" -> IF res.val.b THEN b ELSE b /\ FALSE
      [] res.tag = "Ok" /\ res.val.tag \notin {"Symbolic", "Bool"} -> b
      [] res.tag = "Err" /\ res.err = "Dead" -> b
      [] res.tag = "Err" /\ res.err # "Dead" -> b /\ FALSE

\* the entries of the queue of trace_collector; the text of the events that
\* simplify and write_events produce is left out
TraceOk == [tag |-> "Ok"]
TraceErr(err) == [tag |-> "Err", msg |-> "Error " \o err]

\* trace_collector, q being the queue
TraceDeadPushes(res, q) ==
    IF res.tag = "Ok" THEN Append(q, TraceOk) ELSE Append(q, TraceErr(res.err))
trace_collector(res, q) ==
    CASE res.tag = "Ok" -> Append(q, TraceOk)
      [] res.tag = "Err" /\ res.err = "Dead" -> q
      [] res.tag = "Err" /\ res.err # "Dead" -> Append(q, TraceErr(res.err))

\* ------------------------------------------------------------------------
\* State
\* ------------------------------------------------------------------------

VARIABLES
    mode,              \* "single": start_single, "multi": start_multi
    prog,              \* the program that is executed
    nthreads,          \* num_threads (1 for start_single)
    global,            \* the injector
    stealers,          \* the registry of stealers, in registration order
    deque,             \* deque[tid]: the worker's queue, newest task last
    wpc,               \* wpc[tid]: where the worker is in its loop
    held,              \* held[tid]: the task find_task returned
    inner,             \* inner[tid]: Busy has been sent for this busy period
    scan,              \* scan[tid]: position of find_task in the steal round
    frame,             \* frame[tid]: the LocalFrame of the running path
    solver,            \* solver[tid]: the solver of the running path
    result,            \* result[tid]: what run returned, until collected
    collected,         \* collected[tid]: the collector's calls, in order
    all_unsat,         \* the Mutex<bool> of all_unsat_collector
    traces,            \* the SegQueue of trace_collector
    lin,               \* linearize: its argument, its state and its result
    iter,              \* an iterator (Shows, Pairs): its fields and what it gave
    chan,              \* the bounded activity channel tx/rx
    pokeq,             \* pokeq[tid]: the worker's poke channel
    cpc,               \* where the coordinator is
    current_activity,  \* the coordinator's idleness counters
    last_messages      \* the coordinator's last message of every worker

vars == <<mode, prog, nthreads, global, stealers, deque, wpc, held, inner, scan, frame,
          solver, result, collected, all_unsat, traces, lin, iter, chan, pokeq,
          cpc,
          current_activity, last_messages>>

poolVars == <<global, stealers, held, inner, scan, chan, pokeq, cpc,
              current_activity, last_messages>>

Workers == 0 .. (nthreads - 1)

\* linearize is not called
NoLin == [stage |-> "none"]

\* no iterator is made
NoIter == [kind |-> "none"]

NoTask == [tag |-> "None"]
NoFrame == [tag |-> "None"]
NoSolver == [tag |-> "None"]
NoResult == [tag |-> "None"]

\* ------------------------------------------------------------------------
\* start_single
\* ------------------------------------------------------------------------

InitSingle ==
    /\ mode = "single"
    /\ prog \in Programs
    /\ nthreads = 1
    /\ global = <<>>
    /\ stealers = <<>>
    /\ deque = [t \in {0} |-> <<InitialTask(prog)>>]
    /\ wpc = [t \in {0} |-> "pop"]
    /\ held = [t \in {0} |-> NoTask]
    /\ inner = [t \in {0} |-> FALSE]
    /\ scan = [t \in {0} |-> 0]
    /\ frame = [t \in {0} |-> NoFrame]
    /\ solver = [t \in {0} |-> NoSolver]
    /\ result = [t \in {0} |-> NoResult]
    /\ collected = [t \in {0} |-> <<>>]
    /\ all_unsat = TRUE
    /\ traces = <<>>
    /\ lin = NoLin
    /\ iter = NoIter
    /\ chan = <<>>
    /\ pokeq = [t \in {0} |-> <<>>]
    /\ cpc = "none"
    /\ current_activity = [t \in {0} |-> 0]
    /\ last_messages = [t \in {0} |-> "Busy"]

Front(q) == SubSeq(q, 1, Len(q) - 1)
Last(q) == q[Len(q)]

\* a queue that gives its oldest task: Worker::new_fifo
SinglePopOldest ==
    /\ mode = "single" /\ wpc[0] = "pop" /\ deque[0] # <<>>
    /\ LET task == Head(deque[0])
       IN /\ solver' = [solver EXCEPT ![0] = StartSolver(task)]
          /\ frame' = [frame EXCEPT ![0] = unfreeze_frame(task.frame)]
    /\ deque' = [deque EXCEPT ![0] = Tail(@)]
    /\ wpc' = [wpc EXCEPT ![0] = "run"]
    /\ UNCHANGED <<mode, prog, nthreads, result, collected, all_unsat, traces, lin, iter>>
    /\ UNCHANGED poolVars

\* while let Some(task) = queue.pop(): the solver is rebuilt, run is entered
SinglePop ==
    /\ mode = "single" /\ wpc[0] = "pop" /\ deque[0] # <<>>
    /\ LET task == Last(deque[0])
       IN /\ solver' = [solver EXCEPT ![0] = StartSolver(task)]
          /\ frame' = [frame EXCEPT ![0] = unfreeze_frame(task.frame)]
    /\ deque' = [deque EXCEPT ![0] = Front(@)]
    /\ wpc' = [wpc EXCEPT ![0] = "run"]
    /\ UNCHANGED <<mode, prog, nthreads, result, collected, all_unsat, traces, lin, iter>>
    /\ UNCHANGED poolVars

\* the queue is empty: start_single returns
SingleReturn ==
    /\ mode = "single" /\ wpc[0] = "pop" /\ deque[0] = <<>>
    /\ wpc' = [wpc EXCEPT ![0] = "done"]
    /\ UNCHANGED <<mode, prog, nthreads, deque, frame, solver, result, collected, all_unsat,
                   traces, lin, iter>>
    /\ UNCHANGED poolVars

CurFellOff == frame[0].pc >= Len(Instrs(prog, frame[0]))
CurInstr == Instrs(prog, frame[0])[frame[0].pc + 1]
AtInstr(op) == mode = "single" /\ wpc[0] = "run" /\ ~CurFellOff /\ CurInstr.op = op

\* the effect of one step of run, were the local state of the queued frames
\* the one the running path writes to
ApplyShared(s) ==
    /\ frame' = [frame EXCEPT ![0] = s.fr]
    /\ solver' = [solver EXCEPT ![0] = s.sv]
    /\ deque' = [deque EXCEPT ![0] =
                   [i \in DOMAIN @ |-> [@[i] EXCEPT !.frame.local_state = Arc(s.fr.local_state)]]
                   \o s.push]
    /\ result' = [result EXCEPT ![0] = IF s.res.tag = "Running" THEN NoResult ELSE s.res]
    /\ wpc' = [wpc EXCEPT ![0] = IF s.res.tag = "Running" THEN "run"
                                 ELSE IF s.res = RErr("panic") THEN "panicked"
                                 ELSE "collect"]
    /\ UNCHANGED <<mode, prog, nthreads, collected, all_unsat, traces, lin, iter>>
    /\ UNCHANGED poolVars

\* the effect of one step of run on the state of start_single
Apply(s) ==
    /\ frame' = [frame EXCEPT ![0] = s.fr]
    /\ solver' = [solver EXCEPT ![0] = s.sv]
    /\ deque' = [deque EXCEPT ![0] = @ \o s.push]
    /\ result' = [result EXCEPT ![0] = IF s.res.tag = "Running" THEN NoResult ELSE s.res]
    /\ wpc' = [wpc EXCEPT ![0] = IF s.res.tag = "Running" THEN "run"
                                 ELSE IF s.res = RErr("panic") THEN "panicked"
                                 ELSE "collect"]
    /\ UNCHANGED <<mode, prog, nthreads, collected, all_unsat, traces, lin, iter>>
    /\ UNCHANGED poolVars

StepDecl == AtInstr("Decl") /\ Apply(ExecDecl(frame[0], solver[0], CurInstr))
StepInit == AtInstr("Init") /\ Apply(ExecInit(frame[0], solver[0], CurInstr))
StepJump == AtInstr("Jump") /\ Apply(ExecJump(frame[0], solver[0], CurInstr))
StepGoto == AtInstr("Goto") /\ Apply(ExecGoto(frame[0], solver[0], CurInstr))
StepCopy == AtInstr("Copy") /\ Apply(ExecCopy(frame[0], solver[0], CurInstr))
StepCall == AtInstr("Call") /\ Apply(ExecCall(prog, frame[0], solver[0], CurInstr))
StepEnd == AtInstr("End") /\ Apply(ExecEnd(frame[0], solver[0]))
StepOther == AtInstr("Arbitrary") /\ Apply(ExecOther(frame[0], solver[0]))
StepFellOff ==
    /\ mode = "single" /\ wpc[0] = "run" /\ CurFellOff
    /\ Apply(ExecFellOff(frame[0], solver[0]))

\* collector(0, result, shared_state, solver, collected)
SingleCollect ==
    /\ mode = "single" /\ wpc[0] = "collect"
    /\ collected' = [collected EXCEPT ![0] = Append(@, Collected(result[0], frame[0], solver[0]))]
    /\ all_unsat' = all_unsat_collector(result[0], solver[0], all_unsat)
    /\ traces' = trace_collector(result[0], traces)
    /\ frame' = [frame EXCEPT ![0] = NoFrame]
    /\ solver' = [solver EXCEPT ![0] = NoSolver]
    /\ result' = [result EXCEPT ![0] = NoResult]
    /\ wpc' = [wpc EXCEPT ![0] = "pop"]
    /\ UNCHANGED <<mode, prog, nthreads, deque, lin, iter>>
    /\ UNCHANGED poolVars

Next ==
    \/ SinglePop
    \/ SingleReturn
    \/ StepDecl
    \/ StepInit
    \/ StepJump
    \/ StepGoto
    \/ StepCopy
    \/ StepCall
    \/ StepEnd
    \/ StepOther
    \/ StepFellOff
    \/ SingleCollect

Spec == InitSingle /\ [][Next]_vars

\* start_single on the programs that read and write fields
InitAccess ==
    /\ mode = "single"
    /\ prog \in AccessPrograms
    /\ nthreads = 1
    /\ global = <<>>
    /\ stealers = <<>>
    /\ deque = [t \in {0} |-> <<InitialTask(prog)>>]
    /\ wpc = [t \in {0} |-> "pop"]
    /\ held = [t \in {0} |-> NoTask]
    /\ inner = [t \in {0} |-> FALSE]
    /\ scan = [t \in {0} |-> 0]
    /\ frame = [t \in {0} |-> NoFrame]
    /\ solver = [t \in {0} |-> NoSolver]
    /\ result = [t \in {0} |-> NoResult]
    /\ collected = [t \in {0} |-> <<>>]
    /\ all_unsat = TRUE
    /\ traces = <<>>
    /\ lin = NoLin
    /\ iter = NoIter
    /\ chan = <<>>
    /\ pokeq = [t \in {0} |-> <<>>]
    /\ cpc = "none"
    /\ current_activity = [t \in {0} |-> 0]
    /\ last_messages = [t \in {0} |-> "Busy"]

SpecAccess == InitAccess /\ [][Next]_vars

\* start_single on the programs that call functions
InitCalls ==
    /\ mode = "single"
    /\ prog \in CallPrograms
    /\ nthreads = 1
    /\ global = <<>>
    /\ stealers = <<>>
    /\ deque = [t \in {0} |-> <<InitialTask(prog)>>]
    /\ wpc = [t \in {0} |-> "pop"]
    /\ held = [t \in {0} |-> NoTask]
    /\ inner = [t \in {0} |-> FALSE]
    /\ scan = [t \in {0} |-> 0]
    /\ frame = [t \in {0} |-> NoFrame]
    /\ solver = [t \in {0} |-> NoSolver]
    /\ result = [t \in {0} |-> NoResult]
    /\ collected = [t \in {0} |-> <<>>]
    /\ all_unsat = TRUE
    /\ traces = <<>>
    /\ lin = NoLin
    /\ iter = NoIter
    /\ chan = <<>>
    /\ pokeq = [t \in {0} |-> <<>>]
    /\ cpc = "none"
    /\ current_activity = [t \in {0} |-> 0]
    /\ last_messages = [t \in {0} |-> "Busy"]

SpecCalls == InitCalls /\ [][Next]_vars

\* the state of start_single after it returned
SingleReturned == mode = "single" /\ wpc[0] = "done"

\* ------------------------------------------------------------------------
\* start_multi: the workers
\* ------------------------------------------------------------------------

\* mpsc::sync_channel(2 * num_threads)
ChanCapacity == 2 * nthreads

MsgBusy(tid) == [act |-> "Busy", tid |-> tid]
MsgIdle(tid) == [act |-> "Idle", tid |-> tid]

InitMulti ==
    /\ mode = "multi"
    /\ prog \in Workloads
    /\ nthreads \in 1..MaxThreads
    /\ global = <<InitialTask(prog)>>
    /\ stealers = <<>>
    /\ deque = [t \in Workers |-> <<>>]
    /\ wpc = [t \in Workers |-> "spawned"]
    /\ held = [t \in Workers |-> NoTask]
    /\ inner = [t \in Workers |-> FALSE]
    /\ scan = [t \in Workers |-> 0]
    /\ frame = [t \in Workers |-> NoFrame]
    /\ solver = [t \in Workers |-> NoSolver]
    /\ result = [t \in Workers |-> NoResult]
    /\ collected = [t \in Workers |-> <<>>]
    /\ all_unsat = TRUE
    /\ traces = <<>>
    /\ lin = NoLin
    /\ iter = NoIter
    /\ chan = <<>>
    /\ pokeq = [t \in Workers |-> <<>>]
    /\ cpc = "loop"
    /\ current_activity = [t \in Workers |-> 0]
    /\ last_messages = [t \in Workers |-> "Busy"]

runVars == <<frame, solver, result, collected, all_unsat, traces>>
coordVars == <<cpc, current_activity, last_messages>>
fixedVars == <<mode, prog, nthreads, lin, iter>>

\* find_task holds the read lock of the registry from its first line to its last
ReadLocked == \E t \in Workers : wpc[t] = "steal"

\* stealers.write().unwrap().push(q.stealer())
Register(tid) ==
    /\ mode = "multi" /\ wpc[tid] = "spawned" /\ ~ReadLocked
    /\ stealers' = Append(stealers, tid)
    /\ wpc' = [wpc EXCEPT ![tid] = "find"]
    /\ UNCHANGED <<global, deque, held, inner, scan, chan, pokeq>>
    /\ UNCHANGED <<fixedVars, runVars, coordVars>>

\* where a worker goes with the task find_task returned: the first task of
\* a busy period is announced with Busy, the later ones are run at once
Found(tid, task) ==
    /\ held' = [held EXCEPT ![tid] = task]
    /\ scan' = [scan EXCEPT ![tid] = 0]
    /\ wpc' = [wpc EXCEPT ![tid] = IF inner[tid] THEN "work" ELSE "sendBusy"]

\* the steal from the worker's own stealer finds what local.pop() found a
\* moment before, nothing: only the worker itself pushes on its deque
SkipOwn(tid, i) == IF i <= Len(stealers) /\ stealers[i] = tid THEN i + 1 ELSE i

\* find_task: local.pop()
FindLocal(tid) ==
    /\ mode = "multi" /\ wpc[tid] = "find"
    /\ IF deque[tid] # <<>>
       THEN /\ Found(tid, Last(deque[tid]))
            /\ deque' = [deque EXCEPT ![tid] = Front(@)]
       ELSE /\ wpc' = [wpc EXCEPT ![tid] = "steal"]
            /\ scan' = [scan EXCEPT ![tid] = SkipOwn(tid, 1)]
            /\ UNCHANGED <<held, deque>>
    /\ UNCHANGED <<global, stealers, inner, chan, pokeq>>
    /\ UNCHANGED <<fixedVars, runVars, coordVars>>

\* a steal that hands the oldest task of the victim out and leaves it there
FindStealLeaves(tid) ==
    /\ mode = "multi" /\ wpc[tid] = "steal" /\ scan[tid] <= Len(stealers)
    /\ LET victim == stealers[scan[tid]]
       IN IF deque[victim] # <<>>
          THEN /\ Found(tid, Head(deque[victim]))
               /\ UNCHANGED deque
          ELSE /\ scan' = [scan EXCEPT ![tid] = SkipOwn(tid, @ + 1)]
               /\ UNCHANGED <<held, deque, wpc>>
    /\ UNCHANGED <<global, stealers, inner, chan, pokeq>>
    /\ UNCHANGED <<fixedVars, runVars, coordVars>>

\* find_task: one s.steal() of stealers.iter().map(|s| s.steal()).collect(),
\* which takes the oldest task of the victim and stops at the first success
FindSteal(tid) ==
    /\ mode = "multi" /\ wpc[tid] = "steal" /\ scan[tid] <= Len(stealers)
    /\ LET victim == stealers[scan[tid]]
       IN IF deque[victim] # <<>>
          THEN /\ Found(tid, Head(deque[victim]))
               /\ deque' = [deque EXCEPT ![victim] = Tail(@)]
          ELSE /\ scan' = [scan EXCEPT ![tid] = SkipOwn(tid, @ + 1)]
               /\ UNCHANGED <<held, deque, wpc>>
    /\ UNCHANGED <<global, stealers, inner, chan, pokeq>>
    /\ UNCHANGED <<fixedVars, runVars, coordVars>>

\* find_task: global.steal_batch_and_pop(local), and None when that is empty too
FindGlobal(tid) ==
    /\ mode = "multi" /\ wpc[tid] = "steal" /\ scan[tid] > Len(stealers)
    /\ IF global # <<>>
       THEN /\ Found(tid, Head(global))
            /\ deque' = [deque EXCEPT ![tid] = @ \o Tail(global)]
            /\ global' = <<>>
            /\ UNCHANGED inner
       ELSE /\ wpc' = [wpc EXCEPT ![tid] = "sendIdle"]
            /\ scan' = [scan EXCEPT ![tid] = 0]
            /\ inner' = [inner EXCEPT ![tid] = FALSE]
            /\ UNCHANGED <<held, deque, global>>
    /\ UNCHANGED <<stealers, chan, pokeq>>
    /\ UNCHANGED <<fixedVars, runVars, coordVars>>

\* a worker that goes to work without a word
SendBusyMute(tid) ==
    /\ mode = "multi" /\ wpc[tid] = "sendBusy" /\ Len(chan) < ChanCapacity
    /\ inner' = [inner EXCEPT ![tid] = TRUE]
    /\ wpc' = [wpc EXCEPT ![tid] = "work"]
    /\ UNCHANGED <<global, stealers, deque, held, scan, pokeq, chan>>
    /\ UNCHANGED <<fixedVars, runVars, coordVars>>

\* thread_tx.send(Activity::Busy(tid)): blocks while the channel is full
SendBusy(tid) ==
    /\ mode = "multi" /\ wpc[tid] = "sendBusy" /\ Len(chan) < ChanCapacity
    /\ chan' = Append(chan, MsgBusy(tid))
    /\ inner' = [inner EXCEPT ![tid] = TRUE]
    /\ wpc' = [wpc EXCEPT ![tid] = "work"]
    /\ UNCHANGED <<global, stealers, deque, held, scan, pokeq>>
    /\ UNCHANGED <<fixedVars, runVars, coordVars>>

\* the effect of a stretch of run on the worker: its pushes go to its own
\* deque, and when run returns the collector is called
Worked(tid, s) ==
    /\ deque' = [deque EXCEPT ![tid] = @ \o s.push]
    /\ IF s.res.tag = "Running"
       THEN /\ frame' = [frame EXCEPT ![tid] = s.fr]
            /\ solver' = [solver EXCEPT ![tid] = s.sv]
            /\ wpc' = [wpc EXCEPT ![tid] = "run"]
            /\ UNCHANGED <<collected, all_unsat, traces>>
       ELSE /\ frame' = [frame EXCEPT ![tid] = NoFrame]
            /\ solver' = [solver EXCEPT ![tid] = NoSolver]
            /\ wpc' = [wpc EXCEPT ![tid] = "find"]
            /\ collected' = [collected EXCEPT ![tid] = Append(@, Collected(s.res, s.fr, s.sv))]
            /\ all_unsat' = all_unsat_collector(s.res, s.sv, all_unsat)
            /\ traces' = trace_collector(s.res, traces)
    /\ UNCHANGED <<global, stealers, inner, scan, chan, pokeq, result>>
    /\ UNCHANGED <<fixedVars, coordVars>>

\* do_work: the solver is rebuilt from the task, run is entered
DoWork(tid) ==
    /\ mode = "multi" /\ wpc[tid] = "work"
    /\ held' = [held EXCEPT ![tid] = NoTask]
    /\ \E s \in {RunSegment(prog, unfreeze_frame(held[tid].frame), StartSolver(held[tid]))} :
          Worked(tid, s)

\* run goes on after a fork
DoRun(tid) ==
    /\ mode = "multi" /\ wpc[tid] = "run"
    /\ UNCHANGED held
    /\ \E s \in {RunSegment(prog, frame[tid], solver[tid])} : Worked(tid, s)

\* thread_tx.send(Activity::Idle(tid, poke_tx.clone()))
SendIdle(tid) ==
    /\ mode = "multi" /\ wpc[tid] = "sendIdle" /\ Len(chan) < ChanCapacity
    /\ chan' = Append(chan, MsgIdle(tid))
    /\ wpc' = [wpc EXCEPT ![tid] = "recv"]
    /\ UNCHANGED <<global, stealers, deque, held, inner, scan, pokeq>>
    /\ UNCHANGED <<fixedVars, runVars, coordVars>>

\* poke_rx.recv(): Poke goes round the loop, Kill leaves it
RecvPoke(tid) ==
    /\ mode = "multi" /\ wpc[tid] = "recv" /\ pokeq[tid] # <<>>
    /\ Head(pokeq[tid]) = "Poke"
    /\ pokeq' = [pokeq EXCEPT ![tid] = Tail(@)]
    /\ wpc' = [wpc EXCEPT ![tid] = "find"]
    /\ UNCHANGED <<global, stealers, deque, held, inner, scan, chan>>
    /\ UNCHANGED <<fixedVars, runVars, coordVars>>

RecvKill(tid) ==
    /\ mode = "multi" /\ wpc[tid] = "recv" /\ pokeq[tid] # <<>>
    /\ Head(pokeq[tid]) = "Kill"
    /\ pokeq' = [pokeq EXCEPT ![tid] = Tail(@)]
    /\ wpc' = [wpc EXCEPT ![tid] = "done"]
    /\ UNCHANGED <<global, stealers, deque, held, inner, scan, chan>>
    /\ UNCHANGED <<fixedVars, runVars, coordVars>>

\* ------------------------------------------------------------------------
\* find_task under contention.  A steal from a deque or from the injector
\* that loses a race gives Steal::Retry; collect() over the steals gives the
\* first Success, else Retry if one steal gave Retry, else Empty; or_else
\* asks the injector unless the round succeeded and gives Retry if neither
\* succeeded and one of them gave Retry; repeat_with(..).find(..) goes
\* round again while the outcome is Retry.  The workers are run on tasks
\* known by a number (find_task is generic in T), and what a worker does
\* with a task is only that it may push new tasks on its own deque.
\* ------------------------------------------------------------------------

MaxJobs == 3
MaxRetries == 2

Job(n) == [job |-> n]
JobsFrom(n, k) == [i \in 1..k |-> Job(n + i)]

\* the state of the calls of find_task: whether a steal of the worker's
\* current round gave Retry, how many steals gave Retry, how many tasks
\* were made
Finder(n) == [kind |-> "find", retry |-> [t \in Workers |-> FALSE], retries |-> 0, made |-> n]

InitFind ==
    /\ mode = "multi"
    /\ prog = "none"
    /\ nthreads \in 1..MaxThreads
    /\ global \in {JobsFrom(0, n) : n \in 1..2}
    /\ stealers = <<>>
    /\ deque = [t \in Workers |-> <<>>]
    /\ wpc = [t \in Workers |-> "spawned"]
    /\ held = [t \in Workers |-> NoTask]
    /\ inner = [t \in Workers |-> FALSE]
    /\ scan = [t \in Workers |-> 0]
    /\ frame = [t \in Workers |-> NoFrame]
    /\ solver = [t \in Workers |-> NoSolver]
    /\ result = [t \in Workers |-> NoResult]
    /\ collected = [t \in Workers |-> <<>>]
    /\ all_unsat = TRUE
    /\ traces = <<>>
    /\ lin = NoLin
    /\ iter = Finder(Len(global))
    /\ chan = <<>>
    /\ pokeq = [t \in Workers |-> <<>>]
    /\ cpc = "none"
    /\ current_activity = [t \in Workers |-> 0]
    /\ last_messages = [t \in Workers |-> "Busy"]

findFrame == <<mode, prog, nthreads, lin, global, stealers, chan, pokeq, inner>>

\* s.steal() gives Retry: the round goes on with the next stealer
StealRetry(tid) ==
    /\ mode = "multi" /\ wpc[tid] = "steal" /\ scan[tid] <= Len(stealers)
    /\ deque[stealers[scan[tid]]] # <<>>
    /\ iter.retries < MaxRetries
    /\ iter' = [iter EXCEPT !.retry[tid] = TRUE, !.retries = @ + 1]
    /\ scan' = [scan EXCEPT ![tid] = SkipOwn(tid, @ + 1)]
    /\ UNCHANGED <<held, deque, wpc, findFrame, runVars, coordVars>>

\* global.steal_batch_and_pop(local) gives Retry: the outcome of the round
\* is Retry, a new round of steals begins
GlobalRetry(tid) ==
    /\ mode = "multi" /\ wpc[tid] = "steal" /\ scan[tid] > Len(stealers)
    /\ global # <<>>
    /\ iter.retries < MaxRetries
    /\ iter' = [iter EXCEPT !.retry[tid] = FALSE, !.retries = @ + 1]
    /\ scan' = [scan EXCEPT ![tid] = SkipOwn(tid, 1)]
    /\ UNCHANGED <<held, deque, wpc, findFrame, runVars, coordVars>>

\* the injector is empty after a round in which a steal gave Retry: the
\* outcome of the round is Retry, a new round of steals begins
RetryRound(tid) ==
    /\ mode = "multi" /\ wpc[tid] = "steal" /\ scan[tid] > Len(stealers)
    /\ global = <<>>
    /\ iter.retry[tid]
    /\ iter' = [iter EXCEPT !.retry[tid] = FALSE]
    /\ scan' = [scan EXCEPT ![tid] = SkipOwn(tid, 1)]
    /\ UNCHANGED <<held, deque, wpc, findFrame, runVars, coordVars>>

\* the injector is asked after a round without Retry, or gives a task
\* after a round with one
AskGlobal(tid) == (iter.retry[tid] => global # <<>>) /\ FindGlobal(tid)

\* the worker is done with the task find_task gave it, has pushed up to
\* two tasks on its own deque, and calls find_task again
Take(tid) ==
    /\ mode = "multi" /\ wpc[tid] \in {"sendBusy", "work"}
    /\ \E k \in 0..2 :
          /\ iter.made + k <= MaxJobs
          /\ deque' = [deque EXCEPT ![tid] = @ \o JobsFrom(iter.made, k)]
          /\ iter' = [iter EXCEPT !.retry[tid] = FALSE, !.made = @ + k]
    /\ held' = [held EXCEPT ![tid] = NoTask]
    /\ wpc' = [wpc EXCEPT ![tid] = "find"]
    /\ UNCHANGED <<scan, findFrame, runVars, coordVars>>

\* find_task gave None and is called again
Again(tid) ==
    /\ mode = "multi" /\ wpc[tid] = "sendIdle"
    /\ wpc' = [wpc EXCEPT ![tid] = "find"]
    /\ UNCHANGED <<held, deque, scan, iter, findFrame, runVars, coordVars>>

WStealRetry == \E tid \in Workers : StealRetry(tid)
WGlobalRetry == \E tid \in Workers : GlobalRetry(tid)
WRetryRound == \E tid \in Workers : RetryRound(tid)
WAskGlobal == \E tid \in Workers : AskGlobal(tid)
WTake == \E tid \in Workers : Take(tid)
WAgain == \E tid \in Workers : Again(tid)

\* ------------------------------------------------------------------------
\* start_multi: the coordinator
\* ------------------------------------------------------------------------

\* a coordinator that notes Busy and leaves the counter as it is
CoordBusyKeepsCount ==
    /\ mode = "multi" /\ cpc = "loop" /\ chan # <<>> /\ Head(chan).act = "Busy"
    /\ last_messages' = [last_messages EXCEPT ![Head(chan).tid] = "Busy"]
    /\ chan' = Tail(chan)
    /\ UNCHANGED <<global, stealers, deque, wpc, held, inner, scan, pokeq, cpc>>
    /\ UNCHANGED <<fixedVars, runVars, current_activity>>

\* rx.try_recv() gives Ok(Activity::Busy(tid))
CoordBusy ==
    /\ mode = "multi" /\ cpc = "loop" /\ chan # <<>> /\ Head(chan).act = "Busy"
    /\ last_messages' = [last_messages EXCEPT ![Head(chan).tid] = "Busy"]
    /\ current_activity' = [current_activity EXCEPT ![Head(chan).tid] = 0]
    /\ chan' = Tail(chan)
    /\ UNCHANGED <<global, stealers, deque, wpc, held, inner, scan, pokeq, cpc>>
    /\ UNCHANGED <<fixedVars, runVars>>

\* rx.try_recv() gives Ok(Activity::Idle(tid, poke))
CoordIdle ==
    /\ mode = "multi" /\ cpc = "loop" /\ chan # <<>> /\ Head(chan).act = "Idle"
    /\ last_messages' = [last_messages EXCEPT ![Head(chan).tid] = "Idle"]
    /\ current_activity' = [current_activity EXCEPT ![Head(chan).tid] = @ + 1]
    /\ chan' = Tail(chan)
    /\ UNCHANGED <<global, stealers, deque, wpc, held, inner, scan, pokeq, cpc>>
    /\ UNCHANGED <<fixedVars, runVars>>

Quiescent == \A t \in Workers : current_activity[t] >= 2

\* rx.try_recv() gives Err and every counter is at least 2: Kill is sent to
\* the workers in order, up to the first whose last message is Busy
CoordKill ==
    /\ mode = "multi" /\ cpc = "loop" /\ chan = <<>> /\ Quiescent
    /\ LET busy == {t \in Workers : last_messages[t] = "Busy"}
           killed == {t \in Workers : \A b \in busy : t < b}
       IN /\ pokeq' = [t \in Workers |-> IF t \in killed THEN Append(pokeq[t], "Kill")
                                         ELSE pokeq[t]]
          /\ cpc' = IF busy = {} THEN "done" ELSE "panic"
    /\ UNCHANGED <<global, stealers, deque, wpc, held, inner, scan, chan>>
    /\ UNCHANGED <<current_activity, last_messages>>
    /\ UNCHANGED <<fixedVars, runVars>>

\* rx.try_recv() gives Err and some counter is below 2: every worker whose
\* last message is Idle is poked, and the coordinator sleeps
CoordPoke ==
    /\ mode = "multi" /\ cpc = "loop" /\ chan = <<>> /\ ~Quiescent
    /\ \A t \in Workers : last_messages[t] = "Idle" => Len(pokeq[t]) < MaxPokes
    /\ pokeq' = [t \in Workers |-> IF last_messages[t] = "Idle" THEN Append(pokeq[t], "Poke")
                                   ELSE pokeq[t]]
    /\ current_activity' = [t \in Workers |-> IF last_messages[t] = "Idle" THEN 1
                                              ELSE current_activity[t]]
    /\ UNCHANGED <<global, stealers, deque, wpc, held, inner, scan, chan, cpc, last_messages>>
    /\ UNCHANGED <<fixedVars, runVars>>

WRegister == \E tid \in Workers : Register(tid)
WFindLocal == \E tid \in Workers : FindLocal(tid)
WFindSteal == \E tid \in Workers : FindSteal(tid)
WFindGlobal == \E tid \in Workers : FindGlobal(tid)
WSendBusy == \E tid \in Workers : SendBusy(tid)
WDoWork == \E tid \in Workers : DoWork(tid)
WDoRun == \E tid \in Workers : DoRun(tid)
WSendIdle == \E tid \in Workers : SendIdle(tid)
WRecvPoke == \E tid \in Workers : RecvPoke(tid)
WRecvKill == \E tid \in Workers : RecvKill(tid)

NextMulti ==
    \/ WRegister
    \/ WFindLocal
    \/ WFindSteal
    \/ WFindGlobal
    \/ WSendBusy
    \/ WDoWork
    \/ WDoRun
    \/ WSendIdle
    \/ WRecvPoke
    \/ WRecvKill
    \/ CoordBusy
    \/ CoordIdle
    \/ CoordKill
    \/ CoordPoke

SpecMulti == InitMulti /\ [][NextMulti]_vars

NextFind ==
    \/ WRegister
    \/ WFindLocal
    \/ WFindSteal
    \/ WStealRetry
    \/ WAskGlobal
    \/ WGlobalRetry
    \/ WRetryRound
    \/ WTake
    \/ WAgain

SpecFind == InitFind /\ [][NextFind]_vars

\* the state of start_multi after it returned: the scope has joined every worker
MultiReturned == mode = "multi" /\ cpc = "done" /\ \A t \in Workers : wpc[t] = "done"

\* start_single and start_multi together
InitAll == InitSingle \/ InitMulti
NextAll == Next \/ NextMulti
SpecAll == InitAll /\ [][NextAll]_vars

\* ------------------------------------------------------------------------
\* linearize
\* ------------------------------------------------------------------------

\* the values of the registers the instruction lists read
LinRegs == [{"C1", "C2"} -> BOOLEAN]

\* the engine is not started
NoEngine ==
    /\ nthreads = 1
    /\ global = <<>>
    /\ stealers = <<>>
    /\ deque = [t \in {0} |-> <<>>]
    /\ wpc = [t \in {0} |-> "done"]
    /\ held = [t \in {0} |-> NoTask]
    /\ inner = [t \in {0} |-> FALSE]
    /\ scan = [t \in {0} |-> 0]
    /\ frame = [t \in {0} |-> NoFrame]
    /\ solver = [t \in {0} |-> NoSolver]
    /\ result = [t \in {0} |-> NoResult]
    /\ collected = [t \in {0} |-> <<>>]
    /\ all_unsat = TRUE
    /\ traces = <<>>
    /\ chan = <<>>
    /\ pokeq = [t \in {0} |-> <<>>]
    /\ cpc = "none"
    /\ current_activity = [t \in {0} |-> 0]
    /\ last_messages = [t \in {0} |-> "Busy"]

\* no graph is built yet
NoCfg == [blocks |-> <<>>, edges |-> {}]

\* linearize is called with the instructions of a program; regs is the state
\* in which the argument and the result are run afterwards
InitLin ==
    /\ mode = "linearize"
    /\ prog \in LinPrograms
    /\ \E regs \in LinRegs :
          lin = [stage |-> "called", regs |-> regs, instrs |-> LinProgram(prog), out |-> <<>>,
                 sorted |-> FALSE, cfg |-> NoCfg, topo_order |-> <<>>,
                 reachability |-> <<>>,
                 before |-> NoRun, after |-> NoRun]
    /\ iter = NoIter
    /\ NoEngine

execVars == <<mode, prog, nthreads, deque, wpc, frame, solver, result, collected, all_unsat,
              traces, iter>>

\* prune_labels(label_instrs(instrs))
LinLabeled == prune_labels(label_instrs(lin.instrs))

\* toposort fails: unlabel_instrs(labeled) is returned
LinearizeCyclic ==
    /\ mode = "linearize" /\ lin.stage = "called"
    /\ TopoOrders(CfgNew(LinLabeled)) = {}
    /\ lin' = [lin EXCEPT !.stage = "returned", !.out = PassThrough(LinLabeled)]
    /\ UNCHANGED <<execVars, poolVars>>

\* toposort gives an order: the nodes are linearized in that order
LinearizeAcyclic ==
    /\ mode = "linearize" /\ lin.stage = "called"
    /\ \E topo_order \in TopoOrders(CfgNew(LinLabeled)) :
          lin' = [lin EXCEPT !.stage = "returned", !.sorted = TRUE,
                             !.cfg = Ssa(CfgNew(LinLabeled)),
                             !.topo_order = topo_order,
                             !.reachability =
                                 compute_reachability(Ssa(CfgNew(LinLabeled)), topo_order),
                             !.out = Linearized(Ssa(CfgNew(LinLabeled)), topo_order)]
    /\ UNCHANGED <<execVars, poolVars>>

\* the instructions given and the instructions returned are run from the
\* same registers
RunBoth ==
    /\ mode = "linearize" /\ lin.stage = "returned" /\ lin.sorted
    /\ lin' = [lin EXCEPT !.stage = "ran",
                          !.before = RunOf(lin.instrs, lin.regs),
                          !.after = RunOf(lin.out, lin.regs)]
    /\ UNCHANGED <<execVars, poolVars>>

NextLin ==
    \/ LinearizeCyclic
    \/ LinearizeAcyclic
    \/ RunBoth

SpecLin == InitLin /\ [][NextLin]_vars

\* ------------------------------------------------------------------------
\* MemoryModel::shows   (isla-mml/src/memory_model.rs)
\* ------------------------------------------------------------------------

\* most definitions of a memory model
MaxDefs == 3

\* Def: the definitions that are no Show are all alike here
DefLet == [def |-> "Let"]
DefShow(names) == [def |-> "Show", names |-> names]

DefKinds == {DefLet, DefShow(<<>>), DefShow(<<"co">>), DefShow(<<"rf", "fr">>)}

\* MemoryModel.defs
MemoryModels == UNION {[1..n -> DefKinds] : n \in 0..MaxDefs}

OptSome(x) == [tag |-> "Some", x |-> x]
OptNone == [tag |-> "None"]

\* what a call of next gives, and the fields it leaves
Next3(item, def, show) == [item |-> item, def |-> def, show |-> show]

RECURSIVE ShowsLoop(_, _, _)
\* the loop of Shows::next
ShowsLoop(defs, def, show) ==
    IF def >= Len(defs) THEN Next3(OptNone, def, show)
    ELSE IF defs[def + 1].def = "Show"
    THEN IF show < Len(defs[def + 1].names)
         THEN Next3(OptSome(defs[def + 1].names[show + 1]), def, show + 1)
         ELSE Next3(OptNone, def + 1, 0)
    ELSE ShowsLoop(defs, def + 1, show)

\* MemoryModel::shows
Shows(defs) == [kind |-> "shows", defs |-> defs, def |-> 0, show |-> 0,
                given |-> <<>>, ended |-> FALSE]

InitShows ==
    /\ mode = "shows"
    /\ prog = "none"
    /\ lin = NoLin
    /\ \E defs \in MemoryModels : iter = Shows(defs)
    /\ NoEngine

iterFrame == <<mode, prog, nthreads, deque, wpc, frame, solver, result, collected, all_unsat,
               traces, lin, poolVars>>

\* one call of next by a caller that goes on until it is given None
ShowsNext ==
    /\ mode = "shows" /\ ~iter.ended
    /\ LET n == ShowsLoop(iter.defs, iter.def, iter.show)
       IN iter' = [iter EXCEPT !.def = n.def, !.show = n.show,
                               !.given = IF n.item.tag = "Some" THEN Append(@, n.item.x) ELSE @,
                               !.ended = n.item.tag = "None"]
    /\ UNCHANGED iterFrame

NextShows ==
    \/ ShowsNext

SpecShows == InitShows /\ [][NextShows]_vars

\* ------------------------------------------------------------------------
\* pairwise::Pairs and Model::interpret_rel   (isla-axiomatic/src/smt_model.rs)
\* ------------------------------------------------------------------------

\* the events a model is parsed with
Events == {"IW", "W0", "R0"}

\* env.events.keys(): the events of the model, each once, in some order
EventSlices ==
    UNION {{sl \in [1..n -> Events] : \A i, j \in 1..n : sl[i] = sl[j] => i = j} :
              n \in 0..Cardinality(Events)}

\* the relations the functions of the model stand for
Relations ==
    {{}, {<<"IW", "W0">>}, {<<"IW", "W0">>, <<"W0", "R0">>, <<"R0", "R0">>},
     {<<"W0", "IW">>, <<"R0", "IW">>, <<"IW", "IW">>, <<"W0", "W0">>}, Events \X Events}

\* SmtFn: a relation given by its members, or a lambda whose body holds for
\* the pairs of s; a name the model does not define is "Unknown"
SmtFixed(shape, rel) == [fn |-> "Fixed", shape |-> shape, s |-> rel]
SmtLambda(rel) == [fn |-> "Lambda", shape |-> "Binary", s |-> rel]
SmtUnknown == [fn |-> "Unknown", shape |-> "Empty", s |-> {}]

SmtFns ==
    {SmtFixed("Empty", {}), SmtFixed("Unary", {}), SmtUnknown}
    \cup {SmtFixed("Binary", r) : r \in Relations} \cup {SmtLambda(r) : r \in Relations}

\* Model::interpret(f, [Event(ev1), Event(ev2)]).into_bool()
Interpret(f, ev1, ev2) ==
    CASE f.fn = "Unknown" -> [ok |-> FALSE, b |-> FALSE]
      [] f.fn = "Fixed" /\ f.shape = "Empty" -> [ok |-> TRUE, b |-> FALSE]
      [] f.fn = "Fixed" /\ f.shape = "Binary" -> [ok |-> TRUE, b |-> <<ev1, ev2>> \in f.s]
      [] f.fn = "Fixed" /\ f.shape = "Unary" -> [ok |-> FALSE, b |-> FALSE]
      [] f.fn = "Lambda" -> [ok |-> TRUE, b |-> <<ev1, ev2>> \in f.s]

\* Pairs::next on a slice of len elements: the item is a pair of positions
\* in the slice, counted from 0
PairsStepShort(i0, i1, len) ==
    IF i1 >= len THEN <<i0 + 1, 1>> ELSE <<i0, i1>>
PairsStep(i0, i1, len) ==
    IF i1 > len THEN <<i0 + 1, 1>> ELSE <<i0, i1>>
PairsNext(index, len) ==
    LET ix == PairsStep(index[1], index[2] + 1, len)
    IN IF ix[1] >= len THEN [item |-> OptNone, index |-> ix]
       ELSE [item |-> OptSome(<<ix[1], ix[2] - 1>>), index |-> ix]

\* interpret_rel(f) on a model with these events: Pairs::from_slice, rel = vec![]
InterpretRel(slice, f) ==
    [kind |-> "pairs", slice |-> slice, f |-> f, index |-> <<0, 0>>,
     given |-> <<>>, rel |-> <<>>, ret |-> "none"]

InitPairs ==
    /\ mode = "pairs"
    /\ prog = "none"
    /\ lin = NoLin
    /\ \E slice \in EventSlices, f \in SmtFns : iter = InterpretRel(slice, f)
    /\ NoEngine

\* what the next call of next gives
PairsGiven == PairsNext(iter.index, Len(iter.slice))
PairsEv1 == iter.slice[PairsGiven.item.x[1] + 1]
PairsEv2 == iter.slice[PairsGiven.item.x[2] + 1]

\* a turn of the loop: the pair is interpreted and pushed when it holds
RelTurn ==
    /\ mode = "pairs" /\ iter.ret = "none"
    /\ PairsGiven.item.tag = "Some"
    /\ Interpret(iter.f, PairsEv1, PairsEv2).ok
    /\ iter' = [iter EXCEPT !.index = PairsGiven.index,
                            !.given = Append(@, PairsGiven.item.x),
                            !.rel = IF Interpret(iter.f, PairsEv1, PairsEv2).b
                                    THEN Append(@, <<PairsEv1, PairsEv2>>) ELSE @]
    /\ UNCHANGED iterFrame

\* a turn of the loop in which interpret or into_bool fails: Err is returned
RelFails ==
    /\ mode = "pairs" /\ iter.ret = "none"
    /\ PairsGiven.item.tag = "Some"
    /\ ~Interpret(iter.f, PairsEv1, PairsEv2).ok
    /\ iter' = [iter EXCEPT !.index = PairsGiven.index,
                            !.given = Append(@, PairsGiven.item.x),
                            !.ret = "Err"]
    /\ UNCHANGED iterFrame

\* next gives None: Ok(rel) is returned
RelReturns ==
    /\ mode = "pairs" /\ iter.ret = "none"
    /\ PairsGiven.item.tag = "None"
    /\ iter' = [iter EXCEPT !.index = PairsGiven.index, !.ret = "Ok"]
    /\ UNCHANGED iterFrame

NextPairs ==
    \/ RelTurn
    \/ RelFails
    \/ RelReturns

SpecPairs == InitPairs /\ [][NextPairs]_vars



\* ------------------------------------------------------------------------
\* Properties
\* ------------------------------------------------------------------------

\* the calls of the collector, as (thread, position) pairs
Calls == UNION {{<<t, i>> : i \in DOMAIN collected[t]} : t \in DOMAIN collected}
PathTrace(c) == collected[c[1]][c[2]].solver.trace
BranchAt(tr) == {j \in DOMAIN tr : tr[j].ev = "Branch"}
\* a fork is known by the trace that led to its Branch event
ForksOf(tr) == {SubSeq(tr, 1, j) : j \in BranchAt(tr)}
Forks == UNION {ForksOf(PathTrace(c)) : c \in Calls}
Pow2(n) == IF n = 0 THEN 1 ELSE IF n = 1 THEN 2 ELSE IF n = 2 THEN 4 ELSE IF n = 3 THEN 8
           ELSE IF n = 4 THEN 16 ELSE IF n = 5 THEN 32 ELSE 64

\* C1: no path is lost or duplicated by start_single or start_multi: the
\* collector is never called twice for the same path, and when the call has
\* returned the number of its calls is the number of forks plus one (2^n for
\* n independent forks in sequence).
C1_NoPathLostOrDuplicated ==
    /\ \A c, d \in Calls : c # d => PathTrace(c) # PathTrace(d)
    /\ (SingleReturned \/ MultiReturned) =>
          /\ Cardinality(Calls) = Cardinality(Forks) + 1
          /\ prog = "forks" => Cardinality(Calls) = Pow2(NForks)
          /\ prog = "mforks" => Cardinality(Calls) = Pow2(PoolForks)

\* start_multi has returned and both of two workers collected paths of the forks
C1_Witness ==
    /\ MultiReturned /\ nthreads = 2 /\ prog = "mforks"
    /\ collected[0] # <<>> /\ collected[1] # <<>>
    /\ Cardinality(Calls) = Pow2(PoolForks)

\* the running path of start_single is between two instructions
SingleRunning == mode = "single" /\ wpc[0] = "run"

\* the condition of the Jump at pc, evaluated in the state before the step
JumpCond == EvalExp(CurInstr.exp, frame[0].local_state, solver[0])

\* the instruction at pc is a Jump whose symbolic condition can be true and can be false
BothFeasible ==
    /\ AtInstr("Jump")
    /\ JumpCond.err = "" /\ JumpCond.val.tag = "Symbolic"
    /\ Satisfiable(Append(solver[0].asserted, XVar(JumpCond.val.v)))
    /\ Satisfiable(Append(solver[0].asserted, XNot(XVar(JumpCond.val.v))))

ForkEffect ==
    /\ Len(deque'[0]) = Len(deque[0]) + 1
    /\ Front(deque'[0]) = deque[0]
    /\ Last(deque'[0]).frame.pc = frame[0].pc + 1
    /\ Last(deque'[0]).fork_cond = SomeDef(DefAssert(XNot(XVar(JumpCond.val.v))))
    /\ Replay(Last(deque'[0]).checkpoint.trace) = solver[0].asserted
    /\ frame'[0].pc = CurInstr.target
    /\ solver'[0] = SolverAdd(FromCheckpoint(Last(deque'[0]).checkpoint),
                              DefAssert(XVar(JumpCond.val.v)))

SiblingResumed ==
    (mode = "single" /\ wpc[0] = "pop" /\ wpc'[0] = "run"
       /\ Last(deque[0]).fork_cond.tag = "Some") =>
        /\ solver'[0] = SolverAdd(FromCheckpoint(Last(deque[0]).checkpoint),
                                  Last(deque[0]).fork_cond.def)
        /\ frame'[0].pc = Last(deque[0]).frame.pc

\* C2: a Jump whose condition c can be true and can be false pushes exactly
\* one task: its pc is the pc after the Jump, its pending assertion is not-c
\* and its checkpoint holds the assertions from before the Jump only.  The
\* running path goes to the target with the solver of that checkpoint plus
\* c, and the task is resumed with the solver of that checkpoint plus not-c.
C2_ForkPushesOneTask == [][(BothFeasible => ForkEffect) /\ SiblingResumed]_vars

\* the path of fork1 that took the Jump runs at the target, its sibling is queued
C2_Witness ==
    /\ prog = "fork1" /\ SingleRunning /\ frame[0].pc = 4
    /\ Len(deque[0]) = 1 /\ deque[0][1].frame.pc = 2
    /\ deque[0][1].fork_cond.tag = "Some"

IsBranch(e) == e.ev = "Branch"
Branches(tr) == SelectSeq(tr, IsBranch)
\* the Branch events of a trace carry 0, 1, 2, ... in this order
Sequential(tr) == \A i \in DOMAIN Branches(tr) : Branches(tr)[i].id = i - 1

BranchIdsInOrder ==
    /\ (mode = "single" /\ wpc[0] \in {"run", "collect"}) =>
          /\ Sequential(solver[0].trace)
          /\ frame[0].branches = Len(Branches(solver[0].trace))
    /\ \A i \in DOMAIN deque[0] :
          /\ Sequential(deque[0][i].checkpoint.trace)
          /\ deque[0][i].frame.branches = Len(Branches(deque[0][i].checkpoint.trace))
    /\ \A c \in Calls :
          /\ Sequential(PathTrace(c))
          /\ collected[c[1]][c[2]].result.tag = "Ok" =>
                collected[c[1]][c[2]].result.frame.branches = Len(Branches(PathTrace(c)))
          /\ prog = "forks" => Len(Branches(PathTrace(c))) = NForks

BranchPerFork ==
    /\ BothFeasible =>
          /\ Branches(solver'[0].trace) =
                Append(Branches(solver[0].trace), EvBranch(frame[0].branches, CurInstr.loc))
          /\ frame'[0].branches = frame[0].branches + 1
          /\ Last(deque'[0]).frame.branches = frame[0].branches + 1
    /\ (SingleRunning /\ ~BothFeasible) =>
          /\ Branches(solver'[0].trace) = Branches(solver[0].trace)
          /\ frame'[0].branches = frame[0].branches

\* C3: a fork emits exactly one Branch event, carrying the counter of before
\* the fork, and both paths go on with the counter one higher; no other step
\* emits one.  So the Branch events of a path carry 0, 1, 2, ... without a
\* gap, also across calls and returns, and a path through k forks has k.
C3_BranchIdsSequential == [](BranchIdsInOrder) /\ [][BranchPerFork]_vars

\* a collected path of the nested calls went through two forks, the second in a callee
C3_Witness ==
    \E c \in Calls :
        /\ prog = "nested" /\ Len(Branches(PathTrace(c))) = 2
        /\ Branches(PathTrace(c))[2].loc = "g"

\* the coordinator leaves its loop: Kill goes to the workers
KillSent == mode = "multi" /\ cpc = "loop" /\ cpc' # "loop"

\* no worker holds or runs a task and no queue has one
NoTaskLeft ==
    /\ global = <<>>
    /\ \A t \in Workers :
          /\ deque[t] = <<>>
          /\ held[t] = NoTask /\ frame[t] = NoFrame
          /\ wpc[t] \notin {"sendBusy", "work", "run"}

\* C4: Kill is sent only in a truly quiescent state: at that moment no
\* worker holds or runs a task, and every deque and the injector are empty.
C4_KillOnlyWhenQuiescent == [][KillSent => NoTaskLeft]_vars

\* a worker waits to send on the full activity channel, or to receive on its
\* empty poke channel, and the coordinator has left its loop
BlockedForever(t) ==
    \/ wpc[t] \in {"sendBusy", "sendIdle"} /\ Len(chan) >= ChanCapacity
    \/ wpc[t] = "recv" /\ pokeq[t] = <<>>

\* C5: start_multi does not deadlock: once the coordinator has left its loop
\* no worker is blocked for ever on the bounded activity channel or on its
\* poke channel.
C5_NoWorkerBlockedForever ==
    (mode = "multi" /\ cpc = "done") => \A t \in Workers : ~BlockedForever(t)

\* no thread of start_multi can take a step
RunOver == mode = "multi" /\ ~ENABLED NextMulti

\* C6: when the run of start_multi is over every worker has received its
\* Kill, and nothing is left on its poke channel behind it.
C6_EveryWorkerReceivesItsKill ==
    RunOver => \A t \in Workers : wpc[t] = "done" /\ pokeq[t] = <<>>

IsRegEvent(e) == e.ev \in {"ReadReg", "WriteReg"}
RegEvents(tr) == SelectSeq(tr, IsRegEvent)
IsIdExp(x) == x.e = "Id"

\* the identifiers the instruction at pc reads, in the order it evaluates them
ReadsOf(ins) ==
    IF ins.op \in {"Init", "Copy", "Jump"} THEN SelectSeq(<<ins.exp>>, IsIdExp)
    ELSE IF ins.op = "Call" THEN SelectSeq(ins.args, IsIdExp)
    ELSE <<>>

\* the identifier the instruction at pc assigns through assign, if any, with
\* the local variables the assignment sees
WritesOf(ins) ==
    IF ins.op = "Copy" THEN <<[id |-> ins.loc.id, vars |-> frame[0].local_state.vars]>>
    ELSE IF ins.op = "End" /\ frame[0].stack.tag = "Some"
    THEN <<[id |-> frame[0].stack.loc.id,
            vars |-> Deref(frame[0].stack.caller.local_state).vars]>>
    ELSE <<>>

ReadsReg(x) ==
    x.id \notin DOMAIN frame[0].local_state.vars /\ x.id \in DOMAIN frame[0].local_state.regs
WritesReg(w) == w.id \notin DOMAIN w.vars /\ w.id # RETURN

\* the register events the instruction at pc must log: its reads, then its write
ExpectedRegEvents ==
    LET rd == SelectSeq(ReadsOf(CurInstr), ReadsReg)
        wr == SelectSeq(WritesOf(CurInstr), WritesReg)
    IN [i \in DOMAIN rd |->
          EvReadReg(rd[i].id, <<>>, frame'[0].local_state.regs[rd[i].id].val)]
       \o [i \in DOMAIN wr |->
            EvWriteReg(wr[i].id, <<>>, frame'[0].local_state.regs[wr[i].id].val)]

EventsInIssueOrder ==
    (SingleRunning /\ ~CurFellOff) =>
        /\ Len(solver'[0].trace) >= Len(solver[0].trace)
        /\ SubSeq(solver'[0].trace, 1, Len(solver[0].trace)) = solver[0].trace
        /\ RegEvents(SubSeq(solver'[0].trace, Len(solver[0].trace) + 1, Len(solver'[0].trace)))
             = ExpectedRegEvents

WriteThenRead ==
    \A c \in Calls :
        prog = "regs" =>
            RegEvents(PathTrace(c)) = <<EvWriteReg("R1", <<>>, VI64(5)),
                                        EvReadReg("R1", <<>>, VI64(5))>>

\* C7: the trace of a path is only ever appended to, each read of a register
\* appends one ReadReg and each write of a register one WriteReg, in the
\* order the instruction makes them, and no access to a local variable, to
\* RETURN or to a let appends one.  R1 := 5; r := R1 logs WriteReg(R1, [], 5)
\* and then ReadReg(R1, [], 5).
C7_EventsInIssueOrder == [](WriteThenRead) /\ [][EventsInIssueOrder]_vars

\* the path that wrote R1 and read it back was collected
C7_Witness ==
    /\ prog = "regs" /\ Calls # {}
    /\ \A c \in Calls : Len(RegEvents(PathTrace(c))) = 2

CallerVars == Deref(frame[0].stack.caller.local_state).vars
ReturnedVal == frame[0].local_state.vars[RETURN].val

\* a Call of a function: the continuation holds the caller as it is after the
\* arguments were read
CallCaptures ==
    (AtInstr("Call") /\ CurInstr.f \in DOMAIN Functions(prog) /\ wpc'[0] = "run") =>
        /\ frame'[0].stack.tag = "Some"
        /\ frame'[0].stack.loc = CurInstr.loc
        /\ frame'[0].stack.caller.pc = frame[0].pc
        /\ frame'[0].stack.caller.instrs = frame[0].instrs
        /\ frame'[0].stack.caller.stack = frame[0].stack
        /\ DOMAIN Deref(frame'[0].stack.caller.local_state).vars
             = DOMAIN frame[0].local_state.vars
        /\ \A k \in DOMAIN frame[0].local_state.vars :
              LET now == Deref(frame'[0].stack.caller.local_state).vars[k]
              IN IF frame[0].local_state.vars[k].tag = "Init"
                    \/ \A i \in DOMAIN CurInstr.args : CurInstr.args[i] # EId(k)
                 THEN now = frame[0].local_state.vars[k]
                 ELSE now.tag = "Init"
        /\ frame'[0].pc = 0 /\ frame'[0].instrs = CurInstr.f

\* the End of a callee: the caller goes on after its Call with what it had, plus the value
EndRestores ==
    (AtInstr("End") /\ frame[0].stack.tag = "Some"
       /\ frame[0].local_state.vars[RETURN].tag = "Init") =>
        /\ wpc'[0] = "run"
        /\ frame'[0].pc = frame[0].stack.caller.pc + 1
        /\ frame'[0].instrs = frame[0].stack.caller.instrs
        /\ frame'[0].stack = frame[0].stack.caller.stack
        /\ IF frame[0].stack.loc.id \in DOMAIN CallerVars \/ frame[0].stack.loc.id = RETURN
           THEN /\ frame'[0].local_state.vars
                     = Insert(CallerVars, frame[0].stack.loc.id, UInit(ReturnedVal))
                /\ frame'[0].local_state.regs = frame[0].local_state.regs
           ELSE /\ frame'[0].local_state.vars = CallerVars
                /\ frame'[0].local_state.regs
                     = Insert(frame[0].local_state.regs, frame[0].stack.loc.id,
                              UInit(ReturnedVal))

\* the continuations of the nested calls are stacked in the order of the calls
StackIsLifo ==
    (mode = "single" /\ wpc[0] = "run" /\ prog \in {"call", "nested"}) =>
        CASE frame[0].instrs = "main" -> frame[0].stack = NoStack
          [] frame[0].instrs = "f" ->
               /\ frame[0].stack.tag = "Some"
               /\ frame[0].stack.caller.instrs = "main"
               /\ frame[0].stack.caller.stack = NoStack
          [] OTHER ->
               /\ frame[0].stack.tag = "Some"
               /\ frame[0].stack.caller.instrs = (IF prog = "call" THEN "main" ELSE "f")
               /\ prog = "nested" =>
                     /\ frame[0].stack.caller.stack.tag = "Some"
                     /\ frame[0].stack.caller.stack.caller.instrs = "main"

\* C8: a Call followed by the End of its callee is a round trip: the frame
\* has the pc after the Call, the caller's instructions, the caller's
\* continuation, and the caller's local variables as they were at the Call,
\* after its arguments were evaluated, with the returned value assigned to
\* the Call's location.  Nested calls unwind last in, first out.
C8_CallReturnRoundTrip == [](StackIsLifo) /\ [][CallCaptures /\ EndRestores]_vars

\* main is back after its Call of f, which called g twice, and r has the value f returned
C8_Witness ==
    /\ prog = "nested" /\ SingleRunning
    /\ frame[0].instrs = "main" /\ frame[0].pc = 6 /\ frame[0].stack = NoStack
    /\ frame[0].local_state.vars["r"] = UInit(VI64(1))
    /\ frame[0].local_state.regs["R1"].tag = "Init"

SlotMap(ls, id) ==
    IF id \in DOMAIN ls.vars THEN ls.vars ELSE IF id \in DOMAIN ls.regs THEN ls.regs ELSE ls.lets

IsDeclare(e) == e.ev = "Smt" /\ e.def.d = "DeclareConst"
Declared(tr) == Len(SelectSeq(tr, IsDeclare))

\* Init of a variable from an identifier: the slot read holds Init(value)
\* afterwards, and a slot that held Init(value) before gives that value and
\* declares nothing
ReadMaterializes ==
    (AtInstr("Init") /\ CurInstr.exp.e = "Id") =>
        LET before == SlotMap(frame[0].local_state, CurInstr.exp.id)[CurInstr.exp.id]
            after == SlotMap(frame'[0].local_state, CurInstr.exp.id)[CurInstr.exp.id]
        IN /\ after.tag = "Init"
           /\ frame'[0].local_state.vars[CurInstr.v] = after
           /\ before.tag = "Init" =>
                 /\ after = before
                 /\ solver'[0].next = solver[0].next
                 /\ Declared(solver'[0].trace) = Declared(solver[0].trace)

\* the two reads of x, of R2 and of L1 gave the same value twice, and R2
\* still holds it
ReadTwiceSame ==
    (prog = "uninit" /\ SingleRunning) =>
        /\ frame[0].pc >= 3 =>
              /\ frame[0].local_state.vars["a"] = frame[0].local_state.vars["b"]
              /\ frame[0].local_state.vars["a"].val.tag = "Symbolic"
        /\ (frame[0].pc >= 5 /\ frame[0].pc <= 9) =>
              frame[0].local_state.vars["c"] = frame[0].local_state.regs["R2"]
        /\ frame[0].pc >= 7 =>
              /\ frame[0].local_state.vars["d"] = frame[0].local_state.vars["e"]
              /\ frame[0].local_state.vars["d"] = frame[0].local_state.lets["L1"]
              /\ Declared(solver[0].trace) = 3

\* C10: the first read of an Uninit slot of vars, regs or lets stores
\* Init(value) in that slot, and every later read of the name on the path
\* gives the same value and declares no further SMT variable.
C10_MaterializeOnce == [](ReadTwiceSame) /\ [][ReadMaterializes]_vars

\* a local variable, a register and a let have each been read twice
C10_Witness ==
    /\ prog = "uninit" /\ SingleRunning /\ frame[0].pc = 7
    /\ frame[0].local_state.vars["d"] = frame[0].local_state.vars["e"]
    /\ frame[0].local_state.vars["a"] = frame[0].local_state.vars["x"]
    /\ frame[0].local_state.vars["a"] # frame[0].local_state.vars["c"]

\* ------------------------------------------------------------------------
\* Jumps that do not fork
\* ------------------------------------------------------------------------

\* the instruction at pc is a Jump whose condition evaluates, and it is no
\* symbolic value both sides of which are feasible
NotAFork == AtInstr("Jump") /\ JumpCond.err = "" /\ ~BothFeasible

CanBeTrue == Satisfiable(Append(JumpCond.sv.asserted, XVar(JumpCond.val.v)))
CanBeFalse == Satisfiable(Append(JumpCond.sv.asserted, XNot(XVar(JumpCond.val.v))))

\* no task, no Branch event, the same branches counter
NoForkEffect ==
    /\ deque'[0] = deque[0]
    /\ Branches(solver'[0].trace) = Branches(solver[0].trace)
    /\ frame'[0].branches = frame[0].branches

Continues == wpc'[0] = "run" /\ result'[0] = NoResult

OneSidedEffect ==
    CASE JumpCond.val.tag = "Bool" ->
           /\ Continues
           /\ solver'[0] = solver[0]
           /\ frame'[0].pc = (IF JumpCond.val.b THEN CurInstr.target ELSE frame[0].pc + 1)
      [] JumpCond.val.tag = "Symbolic" /\ CanBeTrue ->
           /\ Continues
           /\ solver'[0] = SolverAdd(solver[0], DefAssert(XVar(JumpCond.val.v)))
           /\ frame'[0].pc = CurInstr.target
      [] JumpCond.val.tag = "Symbolic" /\ ~CanBeTrue /\ CanBeFalse ->
           /\ Continues
           /\ solver'[0] = SolverAdd(solver[0], DefAssert(XNot(XVar(JumpCond.val.v))))
           /\ frame'[0].pc = frame[0].pc + 1
      [] JumpCond.val.tag = "Symbolic" /\ ~CanBeTrue /\ ~CanBeFalse ->
           /\ wpc'[0] = "collect" /\ result'[0] = RErr("Dead")
           /\ solver'[0] = solver[0]
      [] OTHER -> wpc'[0] = "collect" /\ result'[0] = RErr("Type")

\* C11: a Jump that is no two-sided fork pushes no task, records no Branch
\* event and leaves the branches counter alone.  On a concrete boolean it
\* goes to the target or to pc + 1 and the solver is as it was; on a symbolic
\* c of which only c is satisfiable it asserts c and goes to the target; if
\* only not-c is satisfiable it asserts not-c and goes to pc + 1; if neither
\* is, the path ends with Dead.
C11_OneSidedJump == [][NotAFork => (NoForkEffect /\ OneSidedEffect)]_vars

\* the sibling of onesided, which holds not-x, went through the Jump on x at
\* pc 1: it asserted not-x again, pushed nothing and is at pc 2
C11_Witness ==
    /\ prog = "onesided" /\ SingleRunning /\ frame[0].pc = 2
    /\ deque[0] = <<>> /\ frame[0].branches = 1
    /\ solver[0].asserted = <<XNot(XVar(0)), XNot(XVar(0))>>

\* ------------------------------------------------------------------------
\* Feasibility of the paths that complete
\* ------------------------------------------------------------------------

PathResult(c) == collected[c[1]][c[2]].result
PathAsserted(c) == collected[c[1]][c[2]].solver.asserted

\* the assertion stack of every path delivered with Ok has a model
OkPathsSatisfiable ==
    \A c \in Calls : PathResult(c).tag = "Ok" => Satisfiable(PathAsserted(c))

\* what a Jump on a symbolic condition asserts on the running path and
\* leaves pending in the task it pushes is satisfiable together with the
\* assertions present at the Jump
JumpAssertsFeasible ==
    (AtInstr("Jump") /\ JumpCond.err = "" /\ JumpCond.val.tag = "Symbolic") =>
        /\ \A i \in DOMAIN solver'[0].asserted :
              i > Len(solver[0].asserted) =>
                 Satisfiable(Append(solver[0].asserted, solver'[0].asserted[i]))
        /\ \A i \in DOMAIN deque'[0] :
              i > Len(deque[0]) =>
                 /\ deque'[0][i].fork_cond.tag = "Some"
                 /\ Satisfiable(Append(solver[0].asserted, deque'[0][i].fork_cond.def.exp))

\* C12: for every path that completes with Ok the final assertion stack of
\* its solver is satisfiable, and every assertion a Jump adds, on the
\* continuing side and as the pending assertion of the pushed task, is
\* satisfiable together with the assertions present at that Jump.
C12_OkPathsFeasible == [](OkPathsSatisfiable) /\ [][JumpAssertsFeasible]_vars

\* ------------------------------------------------------------------------
\* Errors
\* ------------------------------------------------------------------------

\* the errors the programs run into, by the pc of the instruction that fails
ExpectedError ==
    CASE prog = "exit" /\ frame[0].pc = 3 -> "Exit"
      [] prog = "typeerr" /\ frame[0].pc = 1 -> "Type"
      [] prog = "intrinsics" /\ frame[0].pc = 7 -> "Type"
      [] prog = "intrinsics" /\ frame[0].pc = 8 -> "Exit"
      [] prog = "evalerr" /\ frame[0].pc = 3 -> "Type"
      [] prog = "evalerr" /\ frame[0].pc = 9 -> "Unimplemented"
      [] prog = EnumJumpProgram(256) /\ frame[0].pc = 3 -> "Dead"
      [] OTHER -> "none"

\* the step of an instruction that fails: run is left with that error at
\* that instruction, and nothing is taken from or added to the queue
ErrorStopsRun ==
    /\ (SingleRunning /\ ExpectedError # "none") =>
          /\ wpc'[0] = "collect" /\ result'[0] = RErr(ExpectedError)
          /\ frame'[0].pc = frame[0].pc /\ frame'[0].instrs = frame[0].instrs
          /\ frame'[0].stack = frame[0].stack
          /\ deque'[0] = deque[0]
    /\ (SingleRunning /\ ExpectedError = "none") => result'[0].tag # "Err"

\* after run has returned, the one step there is calls the collector with its result
DeliveredOnce ==
    (mode = "single" /\ wpc[0] = "collect") =>
        /\ wpc'[0] = "pop"
        /\ Len(collected'[0]) = Len(collected[0]) + 1
        /\ Front(collected'[0]) = collected[0]
        /\ Last(collected'[0]).result.tag = result[0].tag
        /\ result[0].tag = "Err" => Last(collected'[0]).result = result[0]
        /\ deque'[0] = deque[0]

Outcome(r) == IF r.tag = "Ok" THEN "Ok" ELSE r.err
Outcomes == [i \in DOMAIN collected[0] |-> Outcome(collected[0][i].result)]

\* what start_single has delivered when it returns
ExpectedOutcomes ==
    SingleReturned =>
        /\ deque[0] = <<>>
        /\ prog = "exit" => Outcomes = <<"Exit", "Ok">>
        /\ prog = "typeerr" => Outcomes = <<"Type">>
        /\ prog = "intrinsics" => Outcomes = <<"Exit", "Type">>
        /\ prog = "evalerr" => Outcomes = <<"Unimplemented", "Type">>
        /\ prog = EnumJumpProgram(256) => Outcomes = <<"Dead">>

Collecting == mode = "single" /\ wpc[0] = "collect"

IsErrEntry(e) == e.tag = "Err"
ErrEntries(q) == SelectSeq(q, IsErrEntry)

\* the call of the collectors with Exit adds no Err entry and leaves the flag
ExitNotReported ==
    (Collecting /\ result[0] = RErr("Exit")) =>
        /\ ErrEntries(traces') = ErrEntries(traces)
        /\ all_unsat' = all_unsat

\* C14: a path that ends with Exit is not reported as a failure by the
\* collectors: trace_collector enqueues no Err entry for it and
\* all_unsat_collector does not clear the flag for it.
C14_ExitIsNoFailure == [][ExitNotReported]_vars

\* the call of the collectors with Dead changes neither the queue nor the flag
DeadIsSilent ==
    (Collecting /\ result[0] = RErr("Dead")) =>
        /\ traces' = traces
        /\ all_unsat' = all_unsat

\* the call with any other error appends one Err entry and clears the flag
ErrIsReported ==
    (Collecting /\ result[0].tag = "Err" /\ result[0].err # "Dead") =>
        /\ Len(traces') = Len(traces) + 1
        /\ Front(traces') = traces
        /\ Last(traces').tag = "Err"
        /\ all_unsat' = FALSE

\* C15: for a result Err(Dead) trace_collector pushes nothing and
\* all_unsat_collector leaves the flag as it is; for every other Err
\* trace_collector pushes exactly one Err entry and all_unsat_collector
\* clears the flag.
C15_DeadIsSilent == [][DeadIsSilent /\ ErrIsReported]_vars

\* the only path of the program ended with Dead: start_single has returned,
\* the queue of traces is empty and the flag is still set
C15_Witness ==
    /\ SingleReturned /\ Outcomes = <<"Dead">>
    /\ traces = <<>> /\ all_unsat

\* ------------------------------------------------------------------------
\* all_unsat_collector over the paths of a run
\* ------------------------------------------------------------------------

\* not-v has a model under the assertions of the path
CanBeFalseOn(c) ==
    Satisfiable(Append(PathAsserted(c), XNot(XVar(PathResult(c).val.v))))

\* the path returned true, or a symbolic value that is true on it
ReturnsTrue(c) ==
    /\ PathResult(c).tag = "Ok"
    /\ \/ PathResult(c).val = VBool(TRUE)
       \/ PathResult(c).val.tag = "Symbolic" /\ ~CanBeFalseOn(c)

\* the path returned false, a symbolic value that can be false on it, or
\* ended with an error that is not Dead
ReturnsFailure(c) ==
    \/ PathResult(c).tag = "Err" /\ PathResult(c).err # "Dead"
    \/ PathResult(c).tag = "Ok" /\ PathResult(c).val = VBool(FALSE)
    \/ PathResult(c).tag = "Ok" /\ PathResult(c).val.tag = "Symbolic" /\ CanBeFalseOn(c)

FlagNeverSetAgain == all_unsat' => all_unsat

VecSizeOf(name) == CHOOSE n \in 1..MaxVecSize : VecProgram(n) = name

\* the elements are symbolic variables no two of which are the same
Independent(xs) ==
    /\ \A i \in DOMAIN xs : xs[i].tag = "Symbolic"
    /\ \A i, j \in DOMAIN xs : i # j => xs[i].v # xs[j].v

\* after the vector was read: w holds size - 1 independent elements, each
\* declared once
VectorMaterialized ==
    /\ (SingleRunning /\ prog \in VecPrograms /\ frame[0].pc >= 2) =>
          /\ frame[0].local_state.vars["w"].val.tag = "Vector"
          /\ Len(frame[0].local_state.vars["w"].val.xs) = VecSizeOf(prog) - 1
          /\ Independent(frame[0].local_state.vars["w"].val.xs)
          /\ Declared(solver[0].trace) = VecSizeOf(prog) - 1
          /\ frame[0].local_state.vars["v"] = frame[0].local_state.vars["w"]
    /\ (SingleRunning /\ prog = "vecvec" /\ frame[0].pc >= 2) =>
          LET xs == frame[0].local_state.vars["w"].val.xs
          IN /\ Len(xs) = 2
             /\ \A i \in DOMAIN xs : xs[i].tag = "Vector" /\ Len(xs[i].xs) = 1
             /\ Independent(<<xs[1].xs[1], xs[2].xs[1]>>)

\* C19: symbolic on FixedVector(size, elem) gives a Vector of exactly
\* size - 1 elements for every size >= 1, none for size 1, and every element
\* is materialized on its own.
C19_FixedVectorLength == [](VectorMaterialized)

\* a FixedVector of size 3 was read: it has two elements, two variables
C19_Witness ==
    /\ prog = VecProgram(3) /\ SingleRunning /\ frame[0].pc = 2
    /\ frame[0].local_state.vars["w"].val = VVector(<<VSymbolic(0), VSymbolic(1)>>)

\* the bytes the assertions of the solver allow for the variable v
Admitted(sv, v) ==
    {x \in Byte : \A i \in DOMAIN sv.asserted :
        (sv.asserted[i].x = "Bvult" /\ sv.asserted[i].a.v = v) => x < sv.asserted[i].b.n}

\* the number of members of the enum the program reads
EnumSizeOf(name) == CHOOSE n \in EnumSizes : EnumProgram(n) = name

\* after the enum was read: one variable of 8 bits was declared, one
\* assertion was added, and the variable can be exactly a member's number
EnumMaterialized ==
    (SingleRunning /\ prog \in EnumPrograms /\ frame[0].pc >= 2) =>
        /\ frame[0].local_state.vars["k"].val = VSymbolic(0)
        /\ solver[0].trace[1] = EvSmt(DefDeclareConst(0, "BitVec8"))
        /\ Declared(solver[0].trace) = 1
        /\ Len(solver[0].asserted) = 1
        /\ Admitted(solver[0], 0) = 0..(EnumSizeOf(prog) - 1)

\* C20: symbolic on Enum(name) declares one fresh bitvector of 8 bits and
\* asserts it unsigned-less-than the number of members, for every number of
\* members n: exactly the values 0..n-1 are admitted.
C20_EnumRange == [](EnumMaterialized)

\* ------------------------------------------------------------------------
\* linearize on a graph with a cycle
\* ------------------------------------------------------------------------

\* instruction i can be followed by instruction j
Follows(instrs, i, j) ==
    \/ instrs[i].op \in {"Jump", "Goto"} /\ j = instrs[i].target + 1
    \/ instrs[i].op \notin {"Goto", "End", "Arbitrary"} /\ j = i + 1

RECURSIVE ReachedIn(_, _, _)
\* the instructions reached from those of from in at most n steps, one at least
ReachedIn(instrs, from, n) ==
    LET next == {j \in DOMAIN instrs : \E i \in from : Follows(instrs, i, j)}
    IN IF n = 1 THEN next ELSE next \cup ReachedIn(instrs, next, n - 1)

\* some instruction can be reached from itself
HasCycle(instrs) == \E i \in DOMAIN instrs : i \in ReachedIn(instrs, {i}, Len(instrs))

\* linearize has returned
LinReturned == mode = "linearize" /\ lin.stage # "called"

\* C18: when the control-flow graph of the input has a cycle, linearize
\* returns the instructions it was given, unchanged: none is added, removed,
\* reordered or renamed.
C18_CyclicUnchanged == (LinReturned /\ HasCycle(lin.instrs)) => lin.out = lin.instrs

\* linearize has returned the loop it was given
C18_Witness ==
    /\ LinReturned /\ prog = "lin_loop"
    /\ lin.out = <<Decl("x", TI64), Jump(EId("C1"), 3, "l"), Goto(1),
                    Copy(LId(RETURN), EI64(1)), End>>

\* ------------------------------------------------------------------------
\* linearize on a graph without a cycle
\* ------------------------------------------------------------------------

\* the result has no Jump and no Goto
NoBranching == \A i \in DOMAIN lin.out : lin.out[i].op \notin {"Jump", "Goto"}

\* the two runs end with the same value and wrote the same registers
SameRuns == lin.before.res = lin.after.res /\ lin.before.writes = lin.after.writes

\* C17: for an input whose control-flow graph has no cycle, the instructions
\* linearize returns have no Jump and no Goto, and run from any values of the
\* registers they end with the same value of RETURN and the same register
\* writes as the input.
C17_Equivalent ==
    /\ (LinReturned /\ lin.sorted) => NoBranching
    /\ (mode = "linearize" /\ lin.stage = "ran") => SameRuns

\* ------------------------------------------------------------------------
\* The names shown
\* ------------------------------------------------------------------------

RECURSIVE AllShown(_)
\* the names of the Show definitions, in the order of the definitions
AllShown(defs) ==
    IF defs = <<>> THEN <<>>
    ELSE (IF Head(defs).def = "Show" THEN Head(defs).names ELSE <<>>) \o AllShown(Tail(defs))

\* C21: a caller that iterates shows() until it is given None has been given
\* every name of every Show definition of the model, in the order of the
\* definitions and of the names in each, every one once.
C21_AllNamesShown == (mode = "shows" /\ iter.ended) => iter.given = AllShown(iter.defs)

\* ------------------------------------------------------------------------
\* The pairs of a relation
\* ------------------------------------------------------------------------

\* the n*n pairs of positions row by row
RowMajor(n) == [k \in 1..(n * n) |-> <<(k - 1) \div n, (k - 1) % n>>]

\* the members of a sequence
Range(q) == {q[i] : i \in DOMAIN q}

NoRepeat(q) == \A i, j \in DOMAIN q : q[i] = q[j] => i = j

\* the pairs of events of the model for which f holds
Holding(slice, f) ==
    {p \in Range(slice) \X Range(slice) : Interpret(f, p[1], p[2]).ok /\ Interpret(f, p[1], p[2]).b}

\* C22: interpret_rel(f) returns the ordered pairs (e1, e2) of events of the
\* model for which f(e1, e2) is true, and no pair twice; Pairs over a slice
\* of n elements gives the n*n ordered pairs, (x, x) included, every one once
\* and row by row, and then None.
C22_RelAndPairs ==
    /\ (mode = "pairs" /\ iter.ret = "Ok") =>
          /\ Range(iter.rel) = Holding(iter.slice, iter.f)
          /\ NoRepeat(iter.rel)
          /\ iter.given = RowMajor(Len(iter.slice))
    /\ mode = "pairs" =>
          iter.given = SubSeq(RowMajor(Len(iter.slice)), 1, Len(iter.given))

\* a relation of four pairs over three events has been returned
C22_Witness ==
    /\ mode = "pairs" /\ iter.ret = "Ok" /\ Len(iter.slice) = 3
    /\ Len(iter.given) = 9 /\ Len(iter.rel) = 4
    /\ <<"IW", "IW">> \in Range(iter.rel)

\* ------------------------------------------------------------------------
\* Assignment through fields
\* ------------------------------------------------------------------------

\* the identifier an l-value ends in, and the fields on the way to the
\* place it names, the field of the identifier first
RECURSIVE LocId(_)
LocId(loc) == IF loc.l = "Id" THEN loc.id ELSE LocId(loc.loc)
RECURSIVE LocPath(_)
LocPath(loc) == IF loc.l = "Id" THEN <<>> ELSE Append(LocPath(loc.loc), loc.field)

RECURSIVE ValAt(_, _)
ValAt(v, path) == IF path = <<>> THEN v ELSE ValAt(v.fields[Head(path)], Tail(path))

\* the slot of a name that is a local or a register
Slot(ls, id) == IF id \in DOMAIN ls.vars THEN ls.vars[id] ELSE ls.regs[id]

\* run is at a Copy whose l-value is a field of a field
AtNestedCopy == AtInstr("Copy") /\ CurInstr.loc.l = "Field" /\ CurInstr.loc.loc.l = "Field"

\* the Copy went on to the next instruction with v at the place of its l-value
NestedAssigned(loc, v) ==
    /\ wpc'[0] = "run"
    /\ frame'[0].pc = frame[0].pc + 1
    /\ ValAt(Slot(frame'[0].local_state, LocId(loc)).val, LocPath(loc)) = v.val

\* C23: an assignment through a nested field l-value (R.f1.f2 := v) succeeds
\* and leaves v in the addressed sub-field of the top-level identifier
C23_NestedFieldAssigned ==
    [][AtNestedCopy =>
         NestedAssigned(CurInstr.loc, EvalExp(CurInstr.exp, frame[0].local_state, solver[0]))]_vars

\* run is at a Copy whose l-value is a field of an identifier
AtFieldCopy == AtInstr("Copy") /\ CurInstr.loc.l = "Field" /\ CurInstr.loc.loc.l = "Id"

\* the name X holds a struct with the field f, as a local or as a register
HoldsStruct(ls, X, f) ==
    /\ X \in DOMAIN ls.vars \cup DOMAIN ls.regs
    /\ Slot(ls, X).tag = "Init"
    /\ Slot(ls, X).val.tag = "Struct"
    /\ f \in DOMAIN Slot(ls, X).val.fields

\* the struct of X with v in its field f
Updated(ls, X, f, v) == VStruct([Slot(ls, X).val.fields EXCEPT ![f] = v])

\* the effect of X.f := v from the state ls, sv the evaluation of v left
FieldAssignEffect(X, f, v) ==
    (v.err = "" /\ HoldsStruct(v.ls, X, f)) =>
      /\ wpc'[0] = "run"
      /\ IF X \in DOMAIN v.ls.vars
         THEN /\ frame'[0] = [frame[0] EXCEPT
                                !.local_state =
                                    [v.ls EXCEPT !.vars[X] = UInit(Updated(v.ls, X, f, v.val))],
                                !.pc = @ + 1]
              /\ solver'[0] = v.sv
         ELSE /\ frame'[0] = [frame[0] EXCEPT
                                !.local_state =
                                    [v.ls EXCEPT !.regs[X] = UInit(Updated(v.ls, X, f, v.val))],
                                !.pc = @ + 1]
              /\ solver'[0] =
                   [v.sv EXCEPT !.trace =
                       @ \o <<EvReadReg(X, <<AccField(f)>>, Slot(v.ls, X).val),
                              EvWriteReg(X, <<AccField(f)>>, Updated(v.ls, X, f, v.val))>>]

\* C24: X.f := v, X holding a struct, changes field f of X and nothing else;
\* on a register it appends ReadReg(X, [Field f], old struct) and then
\* WriteReg(X, [Field f], updated struct), on a local it appends no event
C24_FieldAssignFrame ==
    [][AtFieldCopy =>
         FieldAssignEffect(CurInstr.loc.loc.id, CurInstr.loc.field,
                           EvalExp(CurInstr.exp, frame[0].local_state, solver[0]))]_vars

\* R.f := false is done on a register that holds a struct with f = true
C24_Witness ==
    /\ mode = "single" /\ prog = "regfield" /\ wpc[0] = "run" /\ frame[0].pc = 1
    /\ solver[0].trace = <<EvReadReg("R", <<AccField("f")>>, SVal(TRUE)),
                           EvWriteReg("R", <<AccField("f")>>, SVal(FALSE))>>

\* ------------------------------------------------------------------------
\* Assignment to an identifier
\* ------------------------------------------------------------------------

\* run is at a Copy whose l-value is an identifier
AtIdCopy == AtInstr("Copy") /\ CurInstr.loc.l = "Id"

\* the effect of id := v from the state ls, sv the evaluation of v left: one
\* slot is written, of vars with no event or of regs with one WriteReg
IdAssignEffect(id, v) ==
    v.err = "" =>
      /\ wpc'[0] = "run"
      /\ IF id \in DOMAIN v.ls.vars \/ id = RETURN
         THEN /\ frame'[0] = [frame[0] EXCEPT
                                !.local_state =
                                    [v.ls EXCEPT !.vars = Insert(@, id, UInit(v.val))],
                                !.pc = @ + 1]
              /\ solver'[0] = v.sv
         ELSE /\ frame'[0] = [frame[0] EXCEPT
                                !.local_state =
                                    [v.ls EXCEPT !.regs = Insert(@, id, UInit(v.val))],
                                !.pc = @ + 1]
              /\ solver'[0] = [v.sv EXCEPT !.trace = Append(@, EvWriteReg(id, <<>>, v.val))]

IdAssignsOneSlot ==
    [][AtIdCopy =>
         IdAssignEffect(CurInstr.loc.id,
                        EvalExp(CurInstr.exp, frame[0].local_state, solver[0]))]_vars

\* lets after the step is lets as the evaluation of v left it
LetsKept(v) == v.err = "" => frame'[0].local_state.lets = v.ls.lets

\* lets after the step is lets as the evaluation of v left it, but for the
\* let X of a field l-value X.f, which is made symbolic if it was not
LetsMaterialized(X, v) ==
    v.err = "" =>
      \/ frame'[0].local_state.lets = v.ls.lets
      \/ /\ X \notin DOMAIN v.ls.vars \cup DOMAIN v.ls.regs
         /\ X \in DOMAIN v.ls.lets
         /\ v.ls.lets[X].tag = "Uninit"
         /\ frame'[0].local_state.lets =
              GetAndInitialize(X, v.ls.lets, v.sv).vars

\* the claim as it is worded: no assignment of a Copy, to an identifier or
\* through a field, modifies lets
C25_LetsNeverModified ==
    /\ IdAssignsOneSlot
    /\ [][AtInstr("Copy") =>
            LetsKept(EvalExp(CurInstr.exp, frame[0].local_state, solver[0]))]_vars

\* C25: an assignment to a top-level identifier id writes exactly one slot:
\* vars[id] with no event if id is a key of vars or RETURN, else regs[id]
\* with exactly one WriteReg(id, path, v), also for an id bound only in lets
\* or nowhere; it leaves lets as it is.  An assignment through a field X.f
\* changes lets only in that it makes an uninitialized let X symbolic
C25_IdAssignFrame ==
    /\ IdAssignsOneSlot
    /\ [][AtFieldCopy =>
            LetsMaterialized(CurInstr.loc.loc.id,
                             EvalExp(CurInstr.exp, frame[0].local_state, solver[0]))]_vars

\* L := 4 is done for the let L: regs has L, lets keeps its L, one WriteReg
C25_Witness ==
    /\ mode = "single" /\ prog = "assignid" /\ wpc[0] = "run" /\ frame[0].pc = 3
    /\ frame[0].local_state.regs["L"] = UInit(VI64(4))
    /\ frame[0].local_state.lets["L"] = UInit(VI64(3))
    /\ solver[0].trace = <<EvWriteReg("L", <<>>, VI64(4))>>

\* ------------------------------------------------------------------------
\* Reading an identifier
\* ------------------------------------------------------------------------

\* run is at an Init, or at a Copy to an identifier, of the value of an identifier
AtIdRead ==
    /\ \/ AtInstr("Init")
       \/ AtInstr("Copy") /\ CurInstr.loc.l = "Id"
    /\ CurInstr.exp.e = "Id"

\* the name the instruction writes
Written(ins) == IF ins.op = "Init" THEN ins.v ELSE ins.loc.id

\* where the value of id comes from
Origin(id, ls) ==
    IF id \in DOMAIN ls.vars THEN "vars"
    ELSE IF id \in DOMAIN ls.regs THEN "regs"
    ELSE IF id \in DOMAIN ls.lets THEN "lets"
    ELSE IF id \in DOMAIN EnumMembers THEN "enum_members"
    ELSE "none"

\* the value a slot gives when read with the solver sv
SlotValue(u, sv) == IF u.tag = "Init" THEN u.val ELSE Symbolic(u.ty, sv).val

\* the value of id, by the place it comes from
ValueFrom(origin, id, ls, sv) ==
    CASE origin = "vars" -> SlotValue(ls.vars[id], sv)
      [] origin = "regs" -> SlotValue(ls.regs[id], sv)
      [] origin = "lets" -> SlotValue(ls.lets[id], sv)
      [] origin = "enum_members" -> VBits(8, EnumMembers[id])

IsReadReg(e) == e.ev = "ReadReg"
ReadRegs(trace) == SelectSeq(trace, IsReadReg)

\* the step reads id from the place origin: the value of that place is
\* written, and a ReadReg is logged exactly for a register
ReadsFrom(origin, id, ls, sv) ==
    IF origin = "none"
    THEN wpc'[0] = "panicked" /\ collected' = collected /\ solver'[0] = sv
    ELSE /\ wpc'[0] = "run"
         /\ (IF CurInstr.op = "Init" THEN frame'[0].local_state.vars[CurInstr.v]
             ELSE Slot(frame'[0].local_state, Written(CurInstr)))
               = UInit(ValueFrom(origin, id, ls, sv))
         /\ ReadRegs(solver'[0].trace) =
               IF origin = "regs"
               THEN Append(ReadRegs(sv.trace), EvReadReg(id, <<>>, ValueFrom(origin, id, ls, sv)))
               ELSE ReadRegs(sv.trace)

\* C26: an identifier is read from vars, else regs, else lets, else the enum
\* members; a local shadows a register of its name and gives no ReadReg; a
\* ReadReg is logged exactly when the value comes from regs; a name found
\* in none of the four aborts the engine: no result is handed to the collector
C26_LookupOrder ==
    /\ [][AtIdRead => ReadsFrom(Origin(CurInstr.exp.id, frame[0].local_state),
                               CurInstr.exp.id, frame[0].local_state, solver[0])]_vars
    /\ [][mode = "single" /\ wpc[0] = "panicked" => FALSE]_vars

\* N was read as a register and then as the local that shadows it
C26_Witness ==
    /\ mode = "single" /\ prog = "lookup" /\ wpc[0] = "run" /\ frame[0].pc = 4
    /\ frame[0].local_state.vars["a"] = UInit(VI64(7))
    /\ "N" \in DOMAIN frame[0].local_state.regs
    /\ ReadRegs(solver[0].trace) = <<EvReadReg("N", <<>>, VI64(1))>>

\* ------------------------------------------------------------------------
\* Reading through fields
\* ------------------------------------------------------------------------

\* Field(...Field(Id x, f1)..., fn): its identifier, its selectors with
\* the outermost first, and its fields in the order they are entered
RECURSIVE IsChain(_)
IsChain(exp) == exp.e = "Id" \/ (exp.e = "Field" /\ IsChain(exp.exp))
RECURSIVE ChainId(_)
ChainId(exp) == IF exp.e = "Id" THEN exp.id ELSE ChainId(exp.exp)
RECURSIVE Selectors(_)
Selectors(exp) ==
    IF exp.e = "Id" THEN <<>> ELSE <<AccField(exp.field)>> \o Selectors(exp.exp)
RECURSIVE Entered(_)
Entered(exp) == IF exp.e = "Id" THEN <<>> ELSE Append(Entered(exp.exp), exp.field)

RECURSIVE HasPath(_, _)
HasPath(v, path) ==
    \/ path = <<>>
    \/ /\ v.tag = "Struct"
       /\ Head(path) \in DOMAIN v.fields
       /\ HasPath(v.fields[Head(path)], Tail(path))

\* run is at an Init, or at a Copy to an identifier, of a chain of fields of
\* a local or a register that has these fields
AtChainRead ==
    /\ \/ AtInstr("Init")
       \/ AtInstr("Copy") /\ CurInstr.loc.l = "Id"
    /\ CurInstr.exp.e = "Field"
    /\ IsChain(CurInstr.exp)
    /\ Origin(ChainId(CurInstr.exp), frame[0].local_state) \in {"vars", "regs"}

\* the step reads the chain exp of the name id that holds whole
ChainReads(exp, id, origin, u, whole) ==
    HasPath(whole, Entered(exp)) =>
      /\ wpc'[0] = "run"
      /\ (IF CurInstr.op = "Init" THEN frame'[0].local_state.vars[CurInstr.v]
          ELSE Slot(frame'[0].local_state, Written(CurInstr)))
            = UInit(ValAt(whole, Entered(exp)))
      /\ IF origin = "regs"
         THEN ReadRegs(solver'[0].trace) =
                Append(ReadRegs(solver[0].trace), EvReadReg(id, Selectors(exp), whole))
         ELSE /\ ReadRegs(solver'[0].trace) = ReadRegs(solver[0].trace)
              /\ (u.tag = "Init" /\ Origin(Written(CurInstr), frame[0].local_state) = "vars")
                    => solver'[0] = solver[0]

ChainReadOf(exp, id, origin, ls, sv) ==
    ChainReads(exp, id, origin, IF origin = "vars" THEN ls.vars[id] ELSE ls.regs[id],
               ValueFrom(origin, id, ls, sv))

\* the ReadReg events of the arguments of a call, each a chain of fields
\* of an initialized name, in the order of the arguments
RECURSIVE ArgReads(_, _)
ArgReads(args, ls) ==
    IF args = <<>> THEN <<>>
    ELSE IF Origin(ChainId(Head(args)), ls) = "regs"
    THEN <<EvReadReg(ChainId(Head(args)), Selectors(Head(args)),
                     ls.regs[ChainId(Head(args))].val)>> \o ArgReads(Tail(args), ls)
    ELSE ArgReads(Tail(args), ls)

\* run is at a Call all arguments of which are chains of initialized names
AtChainCall ==
    /\ AtInstr("Call")
    /\ \A i \in DOMAIN CurInstr.args :
          /\ IsChain(CurInstr.args[i])
          /\ Origin(ChainId(CurInstr.args[i]), frame[0].local_state) \in {"vars", "regs"}
          /\ Slot(frame[0].local_state, ChainId(CurInstr.args[i])).tag = "Init"

\* C27: a chain of field reads on a register logs exactly one ReadReg, with
\* the selectors of the chain (outermost first) as path and the whole
\* register as value, and gives the addressed sub-field; on a local it logs
\* nothing; the path of one argument of a call is not seen in the next
C27_FieldChainRead ==
    /\ [][AtChainRead =>
            ChainReadOf(CurInstr.exp, ChainId(CurInstr.exp),
                        Origin(ChainId(CurInstr.exp), frame[0].local_state),
                        frame[0].local_state, solver[0])]_vars
    /\ [][AtChainCall =>
            ReadRegs(solver'[0].trace) =
              ReadRegs(solver[0].trace) \o ArgReads(CurInstr.args, frame[0].local_state)]_vars

\* Q.h.f was read from the register Q, after Y.h.f from the local Y
C27_Witness ==
    /\ mode = "single" /\ prog = "nestedread" /\ wpc[0] = "run" /\ frame[0].pc = 3
    /\ frame[0].local_state.vars[RETURN] = UInit(VBool(TRUE))
    /\ ReadRegs(solver[0].trace) =
         <<EvReadReg("Q", <<>>, TVal(TRUE)),
           EvReadReg("Q", <<AccField("f"), AccField("h")>>, TVal(TRUE))>>

\* ------------------------------------------------------------------------
\* The two paths of a fork
\* ------------------------------------------------------------------------

IsPrefix(a, b) == Len(a) <= Len(b) /\ SubSeq(b, 1, Len(a)) = a

\* the fork on the variable c left task on the queue: the log of the task
\* ends with the Branch of this fork, and the path that goes on and the
\* task as it will be resumed have this log and its assertions, and then
\* the assertion of c, of not c
SharedPrefix(task, c) ==
    /\ Last(task.checkpoint.trace) = EvBranch(frame[0].branches, CurInstr.loc)
    /\ IsPrefix(JumpCond.sv.trace, task.checkpoint.trace)
    /\ solver'[0].trace = Append(task.checkpoint.trace, EvSmt(DefAssert(XVar(c))))
    /\ StartSolver(task).trace =
         Append(task.checkpoint.trace, EvSmt(DefAssert(XNot(XVar(c)))))
    /\ solver'[0].asserted = Append(Replay(task.checkpoint.trace), XVar(c))
    /\ StartSolver(task).asserted = Append(Replay(task.checkpoint.trace), XNot(XVar(c)))

\* a task pushed by a fork is resumed with the log of its checkpoint and
\* then its assertion
ResumedFromPoint(task) ==
    task.fork_cond.tag = "Some" =>
      /\ solver'[0].trace = Append(task.checkpoint.trace, EvSmt(task.fork_cond.def))
      /\ solver'[0].asserted = Append(Replay(task.checkpoint.trace), task.fork_cond.def.exp)

\* the first place where two logs differ
FirstDiff(a, b) == CHOOSE k \in 1..(Len(a) + 1) : IsPrefix(SubSeq(a, 1, k - 1), b)
                                                  /\ ~IsPrefix(SubSeq(a, 1, k), b)

\* two delivered paths agree up to and including a Branch and differ next
\* in the assertion of a variable and of its negation
DivergeAtFork(a, b) ==
    /\ FirstDiff(a, b) > 1
    /\ FirstDiff(a, b) <= Len(a) /\ FirstDiff(a, b) <= Len(b)
    /\ a[FirstDiff(a, b) - 1].ev = "Branch"
    /\ a[FirstDiff(a, b)].ev = "Smt" /\ b[FirstDiff(a, b)].ev = "Smt"
    /\ a[FirstDiff(a, b)].def.d = "Assert" /\ b[FirstDiff(a, b)].def.d = "Assert"
    /\ \/ a[FirstDiff(a, b)].def.exp = XNot(b[FirstDiff(a, b)].def.exp)
       \/ b[FirstDiff(a, b)].def.exp = XNot(a[FirstDiff(a, b)].def.exp)

\* C28: the two paths of a fork have the same event log and assertions up
\* to and including the Branch event of the fork and differ first in the
\* assertion of c and of not c; the events of a path stay in the order in
\* which they were emitted
C28_SiblingsSharePrefix ==
    /\ [][BothFeasible => SharedPrefix(Last(deque'[0]), JumpCond.val.v)]_vars
    /\ [][(mode = "single" /\ wpc[0] = "pop" /\ wpc'[0] = "run")
            => ResumedFromPoint(Last(deque[0]))]_vars
    /\ [][(SingleRunning /\ wpc'[0] # "pop") => IsPrefix(solver[0].trace, solver'[0].trace)]_vars
    /\ [](\A c, d \in Calls : c # d => DivergeAtFork(PathTrace(c), PathTrace(d)))

\* the second path of fork1 is delivered: the two logs part after the Branch
C28_Witness ==
    /\ mode = "single" /\ prog = "fork1" /\ Len(collected[0]) = 2
    /\ FirstDiff(PathTrace(<<0, 1>>), PathTrace(<<0, 2>>)) = 3
    /\ PathTrace(<<0, 1>>)[2] = EvBranch(0, "src")
    /\ PathTrace(<<0, 1>>)[3] = EvSmt(DefAssert(XVar(0)))
    /\ PathTrace(<<0, 2>>)[3] = EvSmt(DefAssert(XNot(XVar(0))))

\* ------------------------------------------------------------------------
\* Isolation of the paths of a fork
\* ------------------------------------------------------------------------

\* the tasks that are on the queue before and after a step are the same
QueuedKept ==
    \A i \in DOMAIN deque[0] \cap DOMAIN deque'[0] : deque'[0][i] = deque[0][i]

\* the task a fork pushes holds the state of the path at the fork
PushedIsSnapshot(task) ==
    /\ Deref(task.frame.local_state) = JumpCond.ls
    /\ Deref(task.frame.memory) = frame[0].memory
    /\ frame'[0].local_state = JumpCond.ls
    /\ frame'[0].memory = frame[0].memory

\* the task that is popped is run from the frame it holds
PoppedIsHeld(task) == frame'[0] = unfreeze_frame(task.frame)

\* what was handed to the collector stays as it was
CollectedKept == \A i \in DOMAIN collected[0] : collected'[0][i] = collected[0][i]

\* C29: a task pushed at a fork holds the state of the fork; no step of the
\* path that goes on changes a task on the queue, the task is resumed from
\* the frame it was pushed with, and no step of the resumed path changes
\* what the path that pushed it has delivered
C29_ForkIsolation ==
    /\ [][mode = "single" => (QueuedKept /\ CollectedKept)]_vars
    /\ [][BothFeasible => PushedIsSnapshot(Last(deque'[0]))]_vars
    /\ [][(mode = "single" /\ wpc[0] = "pop" /\ wpc'[0] = "run")
            => PoppedIsHeld(Last(deque[0]))]_vars

\* the path that went on has written x, R2 and L; the queued task has not
C29_Witness ==
    /\ mode = "single" /\ prog = "isolated" /\ wpc[0] = "run" /\ frame[0].pc = 10
    /\ Len(deque[0]) = 1
    /\ frame[0].local_state.vars["x"] = UInit(VI64(2))
    /\ frame[0].local_state.regs["R2"] = UInit(VBool(FALSE))
    /\ frame[0].local_state.lets["L"].tag = "Init"
    /\ Deref(deque[0][1].frame.local_state).vars["x"] = UInit(VI64(0))
    /\ Deref(deque[0][1].frame.local_state).regs["R2"] = UInit(VBool(TRUE))
    /\ Deref(deque[0][1].frame.local_state).lets["L"].tag = "Uninit"

\* ------------------------------------------------------------------------
\* The order in which find_task looks for a task
\* ------------------------------------------------------------------------

AllJobs == {Job(n) : n \in 1..MaxJobs}

\* how often the task j is in the queue q, and in all queues
Occ(q, j) == Cardinality({i \in DOMAIN q : q[i] = j})
RECURSIVE OccDeques(_, _, _)
OccDeques(d, n, j) == IF n = 0 THEN 0 ELSE Occ(d[n - 1], j) + OccDeques(d, n - 1, j)
Queued(g, d, j) == Occ(g, j) + OccDeques(d, nthreads, j)

\* no task is in two places: in a queue twice, in two queues, in a queue
\* and in the hands of a worker, or in the hands of two workers
OnePlace ==
    \A j \in AllJobs :
        Queued(global, deque, j) + Cardinality({t \in Workers : held[t] = j}) <= 1

\* find_task returns a task to the worker tid in this step
Returns(tid) == held[tid] = NoTask /\ held'[tid] # NoTask

\* the task returned was in one queue and is in none; the others stay queued
TakenFromOne(tid) ==
    /\ Queued(global, deque, held'[tid]) = 1
    /\ Queued(global', deque', held'[tid]) = 0
    /\ \A j \in AllJobs \ {held'[tid]} : Queued(global', deque', j) = Queued(global, deque, j)

\* the task comes from the own deque if that has one, from a stealer only
\* in a round of steals, from the injector only after all stealers of the
\* round gave none
TakenInOrder(tid) ==
    IF deque[tid] # <<>>
    THEN wpc[tid] = "find" /\ held'[tid] = Last(deque[tid]) /\ deque'[tid] = Front(deque[tid])
    ELSE /\ wpc[tid] = "steal"
         /\ IF scan[tid] <= Len(stealers)
            THEN /\ held'[tid] = Head(deque[stealers[scan[tid]]])
                 /\ global' = global
            ELSE /\ held'[tid] = Head(global)
                 /\ global' = <<>>
                 /\ deque'[tid] = Tail(global)

\* find_task returns None to the worker tid in this step
ReturnsNone(tid) == wpc[tid] \in {"find", "steal"} /\ wpc'[tid] = "sendIdle"

\* None is returned at the end of a round without Retry: the own deque,
\* the stealers and the injector were empty when they were asked
AllEmpty(tid) ==
    /\ wpc[tid] = "steal"
    /\ deque[tid] = <<>>
    /\ scan[tid] > Len(stealers)
    /\ ~iter.retry[tid]
    /\ global = <<>>

\* the worker tid ends a round in which a steal gave Retry
EndsRetryRound(tid) ==
    /\ wpc[tid] = "steal" /\ scan[tid] > Len(stealers) /\ iter.retry[tid]
    /\ <<wpc[tid], scan[tid], held[tid]>> # <<wpc'[tid], scan'[tid], held'[tid]>>

\* the round gives the task of the injector or is followed by a new round
TaskOrNewRound(tid) ==
    \/ Returns(tid)
    \/ wpc'[tid] = "steal" /\ scan'[tid] = SkipOwn(tid, 1) /\ held'[tid] = NoTask

\* C30: find_task takes from the own deque whenever that is not empty, from
\* the injector only when the own deque and the round of steals gave
\* nothing, goes round again while the outcome is Retry, returns None only
\* when own deque, stealers and injector were all found empty, and every
\* task it returns is removed from exactly one queue and given to one worker
C30_FindTaskOrder ==
    /\ [](OnePlace /\ \A t \in Workers : wpc[t] = "steal" => deque[t] = <<>>)
    /\ [][\A t \in Workers :
            /\ Returns(t) => (TakenFromOne(t) /\ TakenInOrder(t))
            /\ (wpc[t] = "find" /\ wpc'[t] # "find" /\ deque[t] # <<>>) => Returns(t)
            /\ ReturnsNone(t) => AllEmpty(t)
            /\ EndsRetryRound(t) => TaskOrNewRound(t)]_vars

\* worker 0 holds the task it took from the injector; worker 1 holds the
\* task that came to the deque of worker 0 with it, stolen after a Retry
C30_Witness ==
    /\ mode = "multi" /\ nthreads = 2
    /\ held[0] = Job(1) /\ held[1] = Job(2)
    /\ global = <<>> /\ deque[0] = <<>>
    /\ iter.retries > 0

\* ------------------------------------------------------------------------
\* One task at a time, the worker's own deque, and its order
\* ------------------------------------------------------------------------

\* the worker t is between two tasks: it has none in hand and runs no path
Between(t) == held[t] = NoTask /\ frame[t] = NoFrame /\ result[t] = NoResult

\* the worker t is given a task in this step
TakesTask(t) ==
    IF mode = "single" THEN wpc[t] = "pop" /\ wpc'[t] = "run"
    ELSE held[t] = NoTask /\ held'[t] # NoTask

\* the worker t is done with a task in this step
EndsTask(t) == ~Between(t) /\ held'[t] = NoTask /\ frame'[t] = NoFrame /\ result'[t] = NoResult

\* the worker t takes a step of its own
Acts(t) == <<wpc[t], held[t], frame[t], scan[t]>> # <<wpc'[t], held'[t], frame'[t], scan'[t]>>

\* a task is taken only between two tasks, and a task is left only by a
\* step that calls the collector once
OneTaskAtATime ==
    \A t \in Workers :
        /\ TakesTask(t) => Between(t)
        /\ EndsTask(t) => Len(collected'[t]) = Len(collected[t]) + 1
        /\ Len(collected'[t]) # Len(collected[t]) =>
             (~Between(t) /\ Len(collected'[t]) = Len(collected[t]) + 1)

\* a deque grows only at its end and only by a step of its worker, which
\* is running a path or has asked the injector; the injector never grows
OwnDequeOnly ==
    /\ Len(global') <= Len(global)
    /\ \A t \in Workers :
          Len(deque'[t]) > Len(deque[t]) =>
            /\ Acts(t)
            /\ wpc[t] \in {"run", "work", "steal"}
            /\ IsPrefix(deque[t], deque'[t])

\* the worker takes the newest task of its own deque
NewestFirst ==
    /\ (mode = "single" /\ wpc[0] = "pop" /\ wpc'[0] = "run") =>
          /\ frame'[0] = unfreeze_frame(Last(deque[0]).frame)
          /\ solver'[0] = StartSolver(Last(deque[0]))
          /\ deque'[0] = Front(deque[0])
    /\ \A t \in Workers :
          (mode = "multi" /\ wpc[t] = "find" /\ Returns(t)) =>
             (held'[t] = Last(deque[t]) /\ deque'[t] = Front(deque[t]))

\* the tasks of the queue of start_single lie in the order of the depth of
\* their forks, and the running path is at least as deep as the deepest
DepthFirst ==
    mode = "single" =>
      /\ \A i, j \in DOMAIN deque[0] :
            i < j => deque[0][i].frame.branches < deque[0][j].frame.branches
      /\ frame[0] # NoFrame =>
            \A i \in DOMAIN deque[0] : deque[0][i].frame.branches <= frame[0].branches

\* start_single returns when its pop finds the queue empty, and only then
ReturnsWhenEmpty ==
    (mode = "single" /\ wpc[0] = "pop") => (wpc'[0] = "done" <=> deque[0] = <<>>)

\* C31: a worker takes a task only when the path of the one before has
\* returned and was handed to the collector; tasks are pushed only by the
\* worker itself at the end of its own deque, and the worker takes the
\* newest; the queue of start_single holds the tasks in the order of their
\* depth, so that the deepest is run next, and start_single returns exactly
\* when the queue is found empty
C31_OneTaskDepthFirst ==
    /\ [][OneTaskAtATime /\ OwnDequeOnly /\ NewestFirst /\ ReturnsWhenEmpty]_vars
    /\ [](DepthFirst /\ (SingleReturned => (deque[0] = <<>> /\ Between(0))))

\* the first path of the forks is delivered and the task of its last fork
\* is running, the tasks of the earlier forks being still queued
C31_Witness ==
    /\ mode = "single" /\ prog = "forks" /\ wpc[0] = "run"
    /\ Len(collected[0]) = 1
    /\ Len(deque[0]) = NForks - 1
    /\ frame[0].branches = NForks
    /\ \A i \in DOMAIN deque[0] : deque[0][i].frame.branches = i

\* ------------------------------------------------------------------------
\* The coordinator's counters
\* ------------------------------------------------------------------------

\* the coordinator receives a message in this step
Receives == mode = "multi" /\ chan # <<>> /\ chan' = Tail(chan)

\* what the message m does to the counter and the last message of its worker
Booked(m) ==
    /\ last_messages' = [last_messages EXCEPT ![m.tid] = m.act]
    /\ current_activity' =
         [current_activity EXCEPT ![m.tid] = IF m.act = "Busy" THEN 0 ELSE @ + 1]

\* the worker t is sent a Poke, a Kill in this step
Poked(t) == pokeq'[t] = Append(pokeq[t], "Poke")
Killed(t) == pokeq'[t] = Append(pokeq[t], "Kill")

\* a Response goes only to a worker whose last message is Idle; a Poke sets
\* its counter to 1, a Kill leaves it
ResponsesToIdle ==
    \A t \in Workers :
        /\ Len(pokeq'[t]) > Len(pokeq[t]) =>
             (last_messages[t] = "Idle" /\ (Poked(t) \/ Killed(t)))
        /\ Poked(t) => current_activity'[t] = 1
        /\ Killed(t) => current_activity'[t] = current_activity[t]

\* the counters and last messages change only when a message is received
\* or a Poke is sent
BookedOnlyThen ==
    (mode = "multi" /\ ~Receives) =>
       /\ last_messages' = last_messages
       /\ \A t \in Workers : current_activity'[t] # current_activity[t] => Poked(t)

\* a counter above 0 belongs to a worker whose last message is Idle
CountedIsIdle == \A t \in Workers : current_activity[t] >= 1 => last_messages[t] = "Idle"

\* C32: Busy(tid) sets the counter of tid to 0, Idle(tid) adds 1 to it, a
\* Poke sets it to 1 and goes only to a worker whose last message is Idle;
\* whenever every counter is at least 2 every last message is Idle, and the
\* coordinator never finds a busy thread when quiescent
C32_CoordinatorCounters ==
    /\ [][(Receives => Booked(Head(chan))) /\ ResponsesToIdle /\ BookedOnlyThen]_vars
    /\ [](mode = "multi" =>
            /\ CountedIsIdle
            /\ Quiescent => \A t \in Workers : last_messages[t] = "Idle"
            /\ cpc # "panic")

\* both workers have run paths, have been counted idle twice since, and
\* the coordinator has sent the Kills and left
C32_Witness ==
    /\ mode = "multi" /\ nthreads = 2 /\ cpc = "done"
    /\ collected[0] # <<>> /\ collected[1] # <<>>
    /\ Quiescent /\ \A t \in Workers : last_messages[t] = "Idle"

\* ------------------------------------------------------------------------
\* What a worker reports
\* ------------------------------------------------------------------------

\* the messages of the worker t that are in the channel
SentBy(t) == {i \in DOMAIN chan : chan[i].tid = t}

\* the message the worker t sent last: the newest of its messages in the
\* channel, or the last one the coordinator received
LastSent(t) ==
    IF SentBy(t) = {} THEN last_messages[t]
    ELSE chan[CHOOSE i \in SentBy(t) : \A j \in SentBy(t) : j <= i].act

\* the worker t has a task in hand or runs a path
Executes(t) == wpc[t] \in {"work", "run"}

\* the worker t waits: for room in the activity channel, or for a Response
Waits(t) == wpc[t] \in {"sendBusy", "sendIdle", "recv"}

\* the worker t sends a message in this step
Sends(t, act) == chan' = Append(chan, [act |-> act, tid |-> t])

\* find_task fails for the worker t in this step
FindFails(t) == wpc[t] \in {"find", "steal"} /\ wpc'[t] \notin {"find", "steal"} /\ held'[t] = NoTask

\* from the failure of find_task the worker sends one Idle, waits for a
\* Response, and goes back to find_task on Poke or leaves on Kill; a task
\* is run without a Busy only after another task of the same busy period
IdleThenWait ==
    \A t \in Workers :
        /\ FindFails(t) => wpc'[t] = "sendIdle"
        /\ (wpc[t] = "sendIdle" /\ wpc'[t] # "sendIdle") => (Sends(t, "Idle") /\ wpc'[t] = "recv")
        /\ (wpc[t] = "recv" /\ wpc'[t] # "recv") =>
             /\ pokeq[t] # <<>> /\ pokeq'[t] = Tail(pokeq[t])
             /\ wpc'[t] = (IF Head(pokeq[t]) = "Poke" THEN "find" ELSE "done")
             /\ chan' = chan
        /\ Sends(t, "Idle") => wpc[t] = "sendIdle"
        /\ (wpc[t] = "sendBusy" /\ wpc'[t] # "sendBusy") => Sends(t, "Busy")
        /\ (Returns(t) /\ wpc'[t] = "work") => (collected[t] # <<>> /\ LastSent(t) = "Busy")
        /\ Sends(t, "Busy") => (wpc[t] = "sendBusy" /\ held[t] # NoTask /\ wpc'[t] = "work")

\* C33: a worker executes a task only when the message it sent last is
\* Busy; when find_task fails it sends one Idle and waits on its poke
\* channel, from where a Poke leads back to find_task and a Kill out of the
\* loop; a worker waits only when its own deque is empty
C33_WorkerReports ==
    /\ [](mode = "multi" =>
            \A t \in Workers :
                /\ Executes(t) => (LastSent(t) = "Busy" /\ inner[t])
                /\ Waits(t) => deque[t] = <<>>)
    /\ [][mode = "multi" => IdleThenWait]_vars

\* worker 1 was idle, was poked, stole a task and runs it: its Busy is the
\* last message it sent, after an Idle the coordinator had received
C33_Witness ==
    /\ mode = "multi" /\ nthreads = 2
    /\ Executes(1) /\ LastSent(1) = "Busy" /\ SentBy(1) # {}
    /\ last_messages[1] = "Idle"

\* ------------------------------------------------------------------------
\* The frame of a callee
\* ------------------------------------------------------------------------

\* the step is the Call of a function of the program, and run goes on
CallsFunction ==
    AtInstr("Call") /\ CurInstr.f \in DOMAIN Functions(prog) /\ wpc'[0] = "run"

\* the arguments of the Call at pc, evaluated in the state before the step
CallArgs == EvalArgs(CurInstr.args, frame[0].local_state, solver[0])

\* the formal parameters of the function called at pc
Params == Functions(prog)[CurInstr.f].params

\* the slots of the map now are those of the map before, but that a slot
\* that an argument names may have been made Init by the reading of it
CarriedOver(before, now) ==
    /\ DOMAIN now = DOMAIN before
    /\ \A k \in DOMAIN before :
          IF before[k].tag = "Init" \/ \A i \in DOMAIN CurInstr.args : CurInstr.args[i] # EId(k)
          THEN now[k] = before[k]
          ELSE now[k].tag = "Init"

\* the callee begins at pc 0 of its instructions with its parameters, bound
\* in order to the values of the arguments, as its only local variables
CalleeFrame ==
    /\ frame'[0].pc = 0
    /\ frame'[0].instrs = CurInstr.f
    /\ Len(Params) = Len(CurInstr.args)
    /\ DOMAIN frame'[0].local_state.vars = {Params[i] : i \in DOMAIN Params}
    /\ \A i \in DOMAIN Params :
          frame'[0].local_state.vars[Params[i]] = UInit(CallArgs.vals[i])
    /\ \A k \in DOMAIN frame[0].local_state.vars :
          (\A i \in DOMAIN Params : Params[i] # k) => k \notin DOMAIN frame'[0].local_state.vars

\* an argument that names a local variable has the value the caller holds
\* for it after the Call
ArgsFromCaller ==
    \A i \in DOMAIN CurInstr.args :
        (CurInstr.args[i].e = "Id" /\ CurInstr.args[i].id \in DOMAIN frame[0].local_state.vars)
          => UInit(CallArgs.vals[i])
               = Deref(frame'[0].stack.caller.local_state).vars[CurInstr.args[i].id]

\* registers, lets, memory and the counters go over to the callee
CalleeKeeps ==
    /\ CarriedOver(frame[0].local_state.regs, frame'[0].local_state.regs)
    /\ CarriedOver(frame[0].local_state.lets, frame'[0].local_state.lets)
    /\ frame'[0].memory = frame[0].memory
    /\ frame'[0].branches = frame[0].branches
    /\ frame'[0].backjumps = frame[0].backjumps
    /\ deque' = deque

\* C34: the Call of a function of the program leaves the callee at pc 0 of
\* its own instructions, with exactly its formal parameters as locals, each
\* bound to the value of the argument at its position, the arguments being
\* evaluated from left to right in the state of the caller; registers,
\* lets, memory and the branches counter are those of the caller
C34_CalleeFrame == [][CallsFunction => (CalleeFrame /\ ArgsFromCaller /\ CalleeKeeps)]_vars

\* g is entered from main: u and w were made symbolic in this order for p
\* and q, n is the caller's a, and the caller's a, u, w and r are not locals
\* of g
C34_Witness ==
    /\ mode = "single" /\ prog = "callfx" /\ wpc[0] = "run"
    /\ frame[0].instrs = "g" /\ frame[0].pc = 0
    /\ frame[0].local_state.vars =
         [k \in {"p", "q", "n"} |->
            IF k = "p" THEN UInit(VSymbolic(0))
            ELSE IF k = "q" THEN UInit(VSymbolic(1)) ELSE UInit(VI64(1))]
    /\ frame[0].local_state.regs["R"] = UInit(VI64(0))
    /\ frame[0].local_state.lets["L"] = Uninit(TBool)
    /\ DOMAIN CallerVars = {"a", "u", "w", "r"}

\* ------------------------------------------------------------------------
\* A fork inside a callee
\* ------------------------------------------------------------------------

\* the programs with a fork in a function that main calls
ForkInCallee == {"nested", "callfx"}

\* the fork leaves the continuation and the instructions of the running
\* frame to both paths
ForkKeepsStack(task) ==
    /\ task.frame.stack = frame[0].stack
    /\ task.frame.instrs = frame[0].instrs
    /\ task.frame.pc = frame[0].pc + 1
    /\ frame'[0].stack = frame[0].stack
    /\ frame'[0].instrs = frame[0].instrs

\* only a Call and an End change the continuation of the running frame
StackKept ==
    (SingleRunning /\ wpc'[0] = "run" /\ ~AtInstr("Call") /\ ~AtInstr("End")) =>
       (frame'[0].stack = frame[0].stack /\ frame'[0].instrs = frame[0].instrs)

\* the map m with the value the callee returns at the name dest
WithReturned(m, dest, now) ==
    /\ DOMAIN now = DOMAIN m \cup {dest}
    /\ \A k \in DOMAIN m \ {dest} : now[k] = m[k]
    /\ now[dest].tag = "Init"
    /\ frame[0].local_state.vars[RETURN].tag = "Init" => now[dest] = UInit(ReturnedVal)

\* the End of a callee that has a RETURN: the caller goes on after its
\* Call with the locals the Call captured and the returned value at the
\* destination of the Call, a local or a register
ReturnsToCaller ==
    (AtInstr("End") /\ frame[0].stack.tag = "Some"
       /\ RETURN \in DOMAIN frame[0].local_state.vars) =>
        /\ wpc'[0] = "run"
        /\ frame'[0].pc = frame[0].stack.caller.pc + 1
        /\ frame'[0].instrs = frame[0].stack.caller.instrs
        /\ frame'[0].stack = frame[0].stack.caller.stack
        /\ IF frame[0].stack.loc.id \in DOMAIN CallerVars \/ frame[0].stack.loc.id = RETURN
           THEN /\ WithReturned(CallerVars, frame[0].stack.loc.id, frame'[0].local_state.vars)
                /\ frame'[0].local_state.regs = frame[0].local_state.regs
           ELSE /\ frame'[0].local_state.vars = CallerVars
                /\ WithReturned(frame[0].local_state.regs, frame[0].stack.loc.id,
                                frame'[0].local_state.regs)

\* the delivered result of a path
PathFrame(c) == collected[c[1]][c[2]].result.frame

\* every path that forked in a callee is delivered from the End of main,
\* with no continuation left and with the locals main had at its Call
BackInMain ==
    (mode = "single" /\ prog \in ForkInCallee) =>
       \A c \in Calls :
           /\ collected[c[1]][c[2]].result.tag = "Ok"
           /\ PathFrame(c).instrs = "main"
           /\ PathFrame(c).stack = NoStack
           /\ PathFrame(c).pc = Len(Functions(prog)["main"].instrs) - 1
           /\ PathFrame(c).local_state.vars["a"] = UInit(VI64(1))
           /\ \A d \in Calls :
                 DOMAIN PathFrame(c).local_state.vars = DOMAIN PathFrame(d).local_state.vars

\* in nested the value g returns goes to the register R1: 3 on the path
\* that asserts the condition of the fork in g, 2 on the path that asserts
\* its negation
OwnValueReturned ==
    (mode = "single" /\ prog = "nested") =>
       \A c \in Calls :
           PathFrame(c).local_state.regs["R1"] =
             UInit(VI64(IF \E i \in DOMAIN PathAsserted(c) : PathAsserted(c)[i] = XVar(1)
                        THEN 3 ELSE 2))

\* C35: a fork inside a callee gives the path that goes on and the queued
\* task the same continuation; the task is resumed with it; both paths
\* return at the End of the callee to the caller, at the pc after the Call,
\* with the locals the caller had at the Call and their own returned value
\* at the destination of the Call
C35_ForkInCalleeKeepsStack ==
    /\ [][(BothFeasible => ForkKeepsStack(Last(deque'[0]))) /\ StackKept /\ ReturnsToCaller
          /\ ((mode = "single" /\ wpc[0] = "pop" /\ wpc'[0] = "run")
                => (frame'[0].stack = Last(deque[0]).frame.stack
                    /\ frame'[0].instrs = Last(deque[0]).frame.instrs))]_vars
    /\ [](BackInMain /\ OwnValueReturned)

\* the two paths of the fork in g, under the first side of the fork in
\* main, are delivered from main with 3 and with 2 in R1
C35_Witness ==
    /\ mode = "single" /\ prog = "nested" /\ Len(collected[0]) = 2
    /\ PathFrame(<<0, 1>>).local_state.regs["R1"] = UInit(VI64(3))
    /\ PathFrame(<<0, 2>>).local_state.regs["R1"] = UInit(VI64(2))
    /\ PathFrame(<<0, 1>>).local_state.vars = PathFrame(<<0, 2>>).local_state.vars
    /\ PathFrame(<<0, 2>>).instrs = "main" /\ PathFrame(<<0, 2>>).stack = NoStack

\* ------------------------------------------------------------------------
\* What a return leaves as the callee made it
\* ------------------------------------------------------------------------

\* the step is the End of a callee that returns to its caller
ReturnStep ==
    /\ AtInstr("End") /\ frame[0].stack.tag = "Some"
    /\ RETURN \in DOMAIN frame[0].local_state.vars
    /\ wpc'[0] = "run"

\* the destination of the Call is a register of the caller
ToRegister ==
    /\ frame[0].stack.loc.id \notin DOMAIN CallerVars
    /\ frame[0].stack.loc.id # RETURN

\* the registers after the return are those of the callee, but for the
\* destination of the Call; lets, memory and counters are those of the callee
CalleeStateKept ==
    /\ \A k \in DOMAIN frame[0].local_state.regs :
          (ToRegister /\ k = frame[0].stack.loc.id)
            \/ (k \in DOMAIN frame'[0].local_state.regs
                  /\ frame'[0].local_state.regs[k] = frame[0].local_state.regs[k])
    /\ frame'[0].local_state.lets = frame[0].local_state.lets
    /\ frame'[0].memory = frame[0].memory
    /\ frame'[0].branches = frame[0].branches
    /\ deque' = deque

\* the events and assertions of the callee stay: the return adds at most
\* the reading of an Uninit RETURN and the WriteReg of its destination
CalleeEventsKept ==
    /\ IsPrefix(solver[0].trace, solver'[0].trace)
    /\ IsPrefix(solver[0].asserted, solver'[0].asserted)
    /\ solver'[0].next >= solver[0].next
    /\ (frame[0].local_state.vars[RETURN].tag = "Init" /\ ~ToRegister) => solver'[0] = solver[0]

\* the locals after the return are the caller's, not the callee's
CallerLocalsBack ==
    \A k \in DOMAIN frame'[0].local_state.vars :
        k = frame[0].stack.loc.id \/ frame'[0].local_state.vars[k] = CallerVars[k]

\* main of callfx after the return of g: the register g wrote, the let g
\* made symbolic and the events of g are there, the local a is main's
CallfxAfterReturn ==
    (mode = "single" /\ prog = "callfx" /\ wpc[0] = "run"
       /\ frame[0].instrs = "main" /\ frame[0].pc >= 5) =>
        /\ frame[0].local_state.regs["R"] = UInit(VI64(1))
        /\ frame[0].local_state.lets["L"] = UInit(VSymbolic(2))
        /\ frame[0].local_state.vars["a"] = UInit(VI64(1))
        /\ \E i \in DOMAIN solver[0].trace : solver[0].trace[i] = EvWriteReg("R", <<>>, VI64(1))
        /\ \E i \in DOMAIN solver[0].trace : solver[0].trace[i] = EvBranch(0, "gf")
        /\ Len(solver[0].asserted) = 1
        /\ frame[0].branches = 1

\* C36: the return of a callee gives the caller its locals back and
\* nothing else: the registers, lets and memory are as the callee left
\* them, and the events and assertions of the callee stay in the solver
C36_ReturnRestoresLocalsOnly ==
    /\ [][ReturnStep => (CalleeStateKept /\ CalleeEventsKept /\ CallerLocalsBack)]_vars
    /\ [](CallfxAfterReturn)

\* main of callfx is back from g on the path that took the Jump of g
C36_Witness ==
    /\ mode = "single" /\ prog = "callfx" /\ wpc[0] = "run"
    /\ frame[0].instrs = "main" /\ frame[0].pc = 5 /\ frame[0].stack = NoStack
    /\ frame[0].local_state.regs["R"] = UInit(VI64(1))
    /\ frame[0].local_state.lets["L"].tag = "Init"
    /\ frame[0].local_state.vars["a"] = UInit(VI64(1))
    /\ frame[0].local_state.vars["r"] = UInit(VSymbolic(1))
    /\ solver[0].asserted = <<XVar(0)>>

\* ------------------------------------------------------------------------
\* End, and the fall from the end of the instructions
\* ------------------------------------------------------------------------

\* the number of continuations of a stack
RECURSIVE Depth(_)
Depth(stack) == IF stack.tag = "None" THEN 0 ELSE 1 + Depth(stack.caller.stack)

\* End is at pc and the frame has a RETURN slot
AtEndWithReturn == AtInstr("End") /\ RETURN \in DOMAIN frame[0].local_state.vars

\* the value End reads from RETURN: the value of the slot, or a symbolic
\* value of its type, which is not stored
ReturnRead ==
    IF frame[0].local_state.vars[RETURN].tag = "Init"
    THEN [val |-> ReturnedVal, sv |-> solver[0]]
    ELSE Symbolic(frame[0].local_state.vars[RETURN].ty, solver[0])

\* End without a continuation: run returns the value and the frame
EndFinishes ==
    (AtEndWithReturn /\ frame[0].stack.tag = "None") =>
        /\ wpc'[0] = "collect"
        /\ result'[0] = ROk(ReturnRead.val)
        /\ frame'[0] = frame[0]
        /\ solver'[0] = ReturnRead.sv
        /\ deque' = deque

\* End with a continuation: run goes on one level up, with the value read
\* at the destination of the Call
EndUnwindsOne ==
    (AtEndWithReturn /\ frame[0].stack.tag = "Some") =>
        /\ wpc'[0] = "run" /\ result'[0] = NoResult
        /\ frame'[0].stack = frame[0].stack.caller.stack
        /\ Depth(frame'[0].stack) = Depth(frame[0].stack) - 1
        /\ frame'[0].instrs = frame[0].stack.caller.instrs
        /\ frame'[0].pc = frame[0].stack.caller.pc + 1
        /\ IF ToRegister
           THEN frame'[0].local_state.regs[frame[0].stack.loc.id] = UInit(ReturnRead.val)
           ELSE frame'[0].local_state.vars[frame[0].stack.loc.id] = UInit(ReturnRead.val)

\* End without a RETURN slot: the thread panics, the collector is not called
EndPanics ==
    /\ (AtInstr("End") /\ RETURN \notin DOMAIN frame[0].local_state.vars) =>
          (wpc'[0] = "panicked" /\ collected' = collected /\ deque' = deque)
    /\ (mode = "single" /\ wpc[0] = "panicked") => FALSE

\* pc is past the last instruction: run returns Unit and the frame as it
\* is, with the continuations it has
FallReturnsUnit ==
    (mode = "single" /\ wpc[0] = "run" /\ CurFellOff) =>
        /\ wpc'[0] = "collect"
        /\ result'[0] = ROk(VUnit)
        /\ frame'[0] = frame[0]
        /\ solver'[0] = solver[0]
        /\ deque' = deque

\* a path is delivered with continuations left only after a fall from the
\* end, with Unit
LeftoverOnlyAfterFall ==
    mode = "single" =>
       \A c \in Calls :
           (collected[c[1]][c[2]].result.tag = "Ok" /\ PathFrame(c).stack.tag = "Some") =>
              /\ collected[c[1]][c[2]].result.val = VUnit
              /\ PathFrame(c).pc >= Len(Functions(prog)[PathFrame(c).instrs].instrs)

\* C37: End with a RETURN slot and no continuation makes run return the
\* value of RETURN and the frame; with a continuation it unwinds exactly
\* one; End without a RETURN slot panics; and when pc is past the last
\* instruction, also by a Goto or Jump to a target behind the list, run
\* returns Unit and the frame at once and invokes no continuation
C37_EndAndFall ==
    /\ [][EndFinishes /\ EndUnwindsOne /\ EndPanics /\ FallReturnsUnit]_vars
    /\ [](LeftoverOnlyAfterFall)

\* both paths of callfall are delivered from inside g with Unit: one left
\* the list by the Jump to 7, the other by the Goto to 9, and the
\* continuation to main is still there
C37_Witness ==
    /\ mode = "single" /\ prog = "callfall" /\ Len(collected[0]) = 2
    /\ \A i \in 1..2 :
          /\ collected[0][i].result.tag = "Ok" /\ collected[0][i].result.val = VUnit
          /\ PathFrame(<<0, i>>).instrs = "g"
          /\ PathFrame(<<0, i>>).stack.tag = "Some"
    /\ PathFrame(<<0, 1>>).pc = 7 /\ PathFrame(<<0, 2>>).pc = 9

\* ------------------------------------------------------------------------
\* The end of the linearized instructions
\* ------------------------------------------------------------------------

\* linearize has returned the instructions of a graph without a cycle
LinSorted == LinReturned /\ lin.sorted

\* some instruction of the list writes the name
WritesName(instrs, name) ==
    \E i \in DOMAIN instrs :
        instrs[i].op \in {"Decl", "Init", "Copy", "PrimopVariadic"} /\ WriteOf(instrs[i]) = name

\* the name generated for the version of RETURN with this number
ReturnVersion(m) == Gensym(SSAName(RETURN, m))

\* what linearize returned before the Copy to RETURN and the End
LinBody == SubSeq(lin.out, 1, Len(lin.out) - 2)

\* m is the highest number of a version of RETURN that the body writes
HighestWritten(m) ==
    /\ WritesName(LinBody, ReturnVersion(m))
    /\ \A k \in 0..Len(lin.out) : WritesName(LinBody, ReturnVersion(k)) => k <= m

\* RETURN is written in the input: the result ends with the Copy of its
\* highest version and End
EndsWithReturnCopy ==
    /\ Len(lin.out) >= 2
    /\ \E m \in 0..Len(lin.out) :
          /\ lin.out[Len(lin.out) - 1] = Copy(LId(RETURN), EId(ReturnVersion(m)))
          /\ HighestWritten(m)

\* RETURN is not written in the input: nothing of the result writes it, in
\* any version
EndsWithEndOnly ==
    /\ ~WritesName(lin.out, RETURN)
    /\ \A k \in 0..Len(lin.out) : ~WritesName(lin.out, ReturnVersion(k))

\* C38: for an input without a cycle the instructions linearize returns end
\* with End; when RETURN is written in the input, End comes right after a
\* Copy to RETURN from the name of the highest-numbered version of RETURN,
\* and when RETURN is never written only End is added.
C38_EndsWithReturn ==
    LinSorted =>
        /\ lin.out # <<>> /\ Last(lin.out) = End
        /\ WritesName(lin.instrs, RETURN) => EndsWithReturnCopy
        /\ ~WritesName(lin.instrs, RETURN) => EndsWithEndOnly

\* the two sides of a Jump write RETURN and the join has a phi function: the
\* third version is copied
C38_Witness ==
    /\ LinSorted /\ prog = "lin_ret" /\ Len(lin.out) = 6
    /\ lin.out[5] = Copy(LId(RETURN), EId("RETURN/2"))
    /\ lin.out[6] = End

\* ------------------------------------------------------------------------
\* The reachability of the nodes
\* ------------------------------------------------------------------------

\* the graph in SSA form that linearize works on
LinCfg == lin.cfg

\* the value of a branch condition when the registers hold regs
RECURSIVE CondHolds(_, _)
CondHolds(exp, regs) ==
    CASE exp.e = "Bool" -> exp.b
      [] exp.e = "Id" -> regs[exp.id.name]
      [] exp.e = "Call" /\ exp.opr = "Not" -> ~CondHolds(exp.args[1], regs)
      [] exp.e = "Call" /\ exp.opr = "And" ->
           CondHolds(exp.args[1], regs) /\ CondHolds(exp.args[2], regs)
      [] exp.e = "Call" /\ exp.opr = "Or" ->
           CondHolds(exp.args[1], regs) \/ CondHolds(exp.args[2], regs)

\* the truth assignment to the edges that the registers make: an edge is
\* true when the terminator of its source takes it
EdgeTaken(cfg, regs) ==
    [e \in cfg.edges |->
        CondHolds(terminator_reachability_exp(cfg.blocks[e.src].terminator, e), regs)]

\* the value of a formula under a truth assignment to the edges
RECURSIVE HoldsUnder(_, _)
HoldsUnder(r, a) ==
    CASE r.r = "True" -> TRUE
      [] r.r = "False" -> FALSE
      [] r.r = "Edge" -> a[r.edge]
      [] r.r = "And" -> HoldsUnder(r.lhs, a) /\ HoldsUnder(r.rhs, a)
      [] r.r = "Or" -> HoldsUnder(r.lhs, a) \/ HoldsUnder(r.rhs, a)

RECURSIVE TakenFrom(_, _, _)
\* the nodes of the path that begins at n and follows the true edges
TakenFrom(cfg, n, a) ==
    {n} \cup UNION {TakenFrom(cfg, e.dst, a) : e \in {f \in cfg.edges : f.src = n /\ a[f]}}

\* the nodes of the path taken from the root
TakenPath(cfg, a) == TakenFrom(cfg, 1, a)

\* the root is given True
RootTrue == lin.reachability[1] = RTrue

\* the source of every edge is before its target in the order of the nodes
SourcesFirst ==
    \A e \in LinCfg.edges :
        Position(lin.topo_order, e.src) < Position(lin.topo_order, e.dst)

\* the formula of a node other than the root is true exactly when, for some
\* edge to it, the formula of the source and the edge are true
DisjunctionOverEdges ==
    \A a \in [LinCfg.edges -> BOOLEAN] :
        \A n \in Nodes(LinCfg) \ {1} :
            HoldsUnder(lin.reachability[n], a) <=>
                \E e \in LinCfg.edges :
                    e.dst = n /\ HoldsUnder(lin.reachability[e.src], a) /\ a[e]

\* the formulas | and & are tried on
SomeFormulas ==
    {RTrue, RFalse} \cup {REdge(e) : e \in LinCfg.edges}
    \cup {lin.reachability[n] : n \in Nodes(LinCfg)}

\* | and & have the value of or and of and
SimplifiedEquivalent ==
    \A a \in [LinCfg.edges -> BOOLEAN] :
        \A lhs, rhs \in SomeFormulas :
            /\ HoldsUnder(BitOr(lhs, rhs), a) <=> (HoldsUnder(lhs, a) \/ HoldsUnder(rhs, a))
            /\ HoldsUnder(BitAnd(lhs, rhs), a) <=> (HoldsUnder(lhs, a) /\ HoldsUnder(rhs, a))

\* under the truth assignment of the registers, the nodes with a true
\* formula are those of the path taken
TakenPathOnly ==
    \A n \in Nodes(LinCfg) :
        HoldsUnder(lin.reachability[n], EdgeTaken(LinCfg, lin.regs))
            <=> n \in TakenPath(LinCfg, EdgeTaken(LinCfg, lin.regs))

\* no two edges join the same two nodes
OneEdgeEach ==
    \A e, f \in LinCfg.edges : (e.src = f.src /\ e.dst = f.dst) => e = f

\* C39: compute_reachability gives the root True and every other node the
\* disjunction, over the edges to it, of the reachability of the source and
\* the predicate of the edge, sources before targets; | and & on formulas
\* have the value of or and of and under every truth assignment to the
\* edges; and under every truth assignment exactly the nodes of the path
\* taken have a true formula.
C39_Reachability ==
    LinSorted =>
        /\ RootTrue
        /\ SourcesFirst
        /\ DisjunctionOverEdges
        /\ SimplifiedEquivalent
        /\ TakenPathOnly

\* the same on the graphs in which no two edges join the same two nodes
C39_OneEdgeEach == (LinSorted /\ OneEdgeEach) => C39_Reachability

\* the three parts that do not depend on the edges taken into a node
C39_Simplification == LinSorted => (RootTrue /\ SourcesFirst /\ SimplifiedEquivalent)

\* ------------------------------------------------------------------------
\* The phi functions
\* ------------------------------------------------------------------------

\* the phi functions of the graph, each with its node
LinPhis ==
    UNION {{[n |-> n, phi |-> LinCfg.blocks[n].phis[j]] : j \in DOMAIN LinCfg.blocks[n].phis} :
           n \in Nodes(LinCfg)}

\* the instructions that linearize pushes for a phi function
Lowered(p) == linearize_phi(p.phi, p.n, LinCfg, lin.reachability)

\* the instructions are in the result, one after the other
InResult(chain) ==
    \E k \in 1..Len(lin.out) :
        k + Len(chain) - 1 <= Len(lin.out) /\ SubSeq(lin.out, k, k + Len(chain) - 1) = chain

IsIte(ins) == ins.op = "PrimopVariadic" /\ ins.f = "ite"

\* n - 1 ite instructions and one Copy
IteAndCopy(chain, n) ==
    /\ Len(chain) = n
    /\ Cardinality({i \in DOMAIN chain : IsIte(chain[i])}) = n - 1
    /\ Cardinality({i \in DOMAIN chain : chain[i].op = "Copy"}) = 1

\* the expression a name stands for: an argument, or ite(c, a, rest)
ArgTree(a) == [t |-> "Arg", a |-> a]
IteTree(c, a, rest) == [t |-> "Ite", c |-> c, a |-> a, rest |-> rest]
NoTree == [t |-> "Undefined"]

RECURSIVE Expanded(_, _, _)
\* the instructions from the i-th on, read with the expressions env of the
\* names written so far; used is false when a name is read before it is
\* written
Expanded(chain, i, st) ==
    IF i > Len(chain) THEN st
    ELSE IF chain[i].op = "Copy"
         THEN Expanded(chain, i + 1,
                  [env |-> (chain[i].loc.id :> ArgTree(chain[i].exp.id)) @@ st.env,
                   defined |-> st.defined])
         ELSE Expanded(chain, i + 1,
                  [env |-> (chain[i].loc.id :>
                               IteTree(chain[i].args[1], chain[i].args[2].id,
                                       IF chain[i].args[3].id \in DOMAIN st.env
                                       THEN st.env[chain[i].args[3].id] ELSE NoTree)) @@ st.env,
                   defined |-> st.defined /\ chain[i].args[3].id \in DOMAIN st.env])

ExpandedChain(chain) == Expanded(chain, 1, [env |-> <<>>, defined |-> TRUE])

\* the edges to a node, in every order
EdgeOrders(cfg, n) ==
    {q \in [1..Cardinality({e \in cfg.edges : e.dst = n}) -> {e \in cfg.edges : e.dst = n}] :
        \A i, j \in DOMAIN q : q[i] = q[j] => i = j}

\* the numbers of the definitions of the name v in node n
DefinedIn(cfg, n, v) ==
    {WriteOf(cfg.blocks[n].instrs[i]).number :
        i \in {j \in DOMAIN cfg.blocks[n].instrs : WriteOf(cfg.blocks[n].instrs[j]).name = v}}
    \cup {cfg.blocks[n].phis[i].id.number :
            i \in {j \in DOMAIN cfg.blocks[n].phis : cfg.blocks[n].phis[j].id.name = v}}

RECURSIVE Supplied(_, _, _)
\* the version of v that holds at the end of node n: the last defined in n,
\* or else the one at the end of the node that dominates n immediately
Supplied(cfg, n, v) ==
    IF DefinedIn(cfg, n, v) # {}
    THEN SSAName(v, CHOOSE m \in DefinedIn(cfg, n, v) : \A k \in DefinedIn(cfg, n, v) : k <= m)
    ELSE IF n = 1 THEN SSAName(v, -1) ELSE Supplied(cfg, Idom(cfg, n), v)

\* the predicate of an edge: the reachability of its source and the edge
EdgePredicate(e) ==
    unssa_exp(ReachabilityExp(RAnd(lin.reachability[e.src], REdge(e)), LinCfg))

\* the value of a condition of the result when the registers hold regs
RECURSIVE FlatHolds(_, _)
FlatHolds(exp, regs) ==
    CASE exp.e = "Bool" -> exp.b
      [] exp.e = "Id" -> regs[exp.id]
      [] exp.e = "Call" /\ exp.opr = "Not" -> ~FlatHolds(exp.args[1], regs)
      [] exp.e = "Call" /\ exp.opr = "And" ->
           FlatHolds(exp.args[1], regs) /\ FlatHolds(exp.args[2], regs)
      [] exp.e = "Call" /\ exp.opr = "Or" ->
           FlatHolds(exp.args[1], regs) \/ FlatHolds(exp.args[2], regs)

RECURSIVE RightChain(_, _, _)
\* ite(c_i, a_i, ite(c_i+1, a_i+1, ... a_n)): the tree has the arguments in
\* their order, and the condition c_i has the value of the predicate of the
\* i-th edge of q whatever the registers hold
RightChain(tree, args, q) ==
    IF Len(args) = 1 THEN tree = ArgTree(Unssa(args[1]))
    ELSE /\ tree.t = "Ite"
         /\ tree.a = Unssa(args[1])
         /\ \A regs \in LinRegs : FlatHolds(tree.c, regs) <=> FlatHolds(EdgePredicate(q[1]), regs)
         /\ RightChain(tree.rest, Tail(args), Tail(q))

RECURSIVE Selected(_, _)
\* the argument the expression has the value of
Selected(tree, regs) ==
    IF tree.t = "Ite"
    THEN IF FlatHolds(tree.c, regs) THEN tree.a ELSE Selected(tree.rest, regs)
    ELSE tree.a

\* the chain is keyed by the edges: in some order q of the edges to the
\* node, the i-th argument is the version the source of the i-th edge
\* supplies and the i-th condition is the predicate of that edge
KeyedByEdges(p) ==
    \E q \in EdgeOrders(LinCfg, p.n) :
        /\ Len(q) = Len(p.phi.args)
        /\ \A i \in DOMAIN q : p.phi.args[i] = Supplied(LinCfg, q[i].src, p.phi.id.name)
        /\ RightChain(ExpandedChain(Lowered(p)).env[Unssa(p.phi.id)], p.phi.args, q)

\* when the node is on the path taken, the value is the version supplied by
\* the source of the edge taken to the node
SelectsTaken(p) ==
    \A e \in {f \in LinCfg.edges : f.dst = p.n} :
        (e.src \in TakenPath(LinCfg, EdgeTaken(LinCfg, lin.regs))
         /\ EdgeTaken(LinCfg, lin.regs)[e]) =>
            Selected(ExpandedChain(Lowered(p)).env[Unssa(p.phi.id)], lin.regs)
                = Unssa(Supplied(LinCfg, e.src, p.phi.id.name))

\* a phi function of one argument is one Copy
OneArgument ==
    ite_chain(1, <<EBool(TRUE)>>, "x/1", <<SSAName("x", 0)>>) = <<Copy(LId("x/1"), EId("x/0"))>>

====
